---- MODULE Spec2Model ----
(***************************************************************************)
(* Model of the FPL league analysis pipeline:                              *)
(*   utils/calculations.py   (points adjuster, scatter-gather per manager) *)
(*   utils/top_n_analysis.py (top-N analyzer)                              *)
(*   utils/fpl_api.py        (league standings fetcher)                    *)
(*   app.py                  (Run Analysis handler)                        *)
(* The external API is modelled as response tables fixed for one run.      *)
(***************************************************************************)
EXTENDS Integers, Sequences, FiniteSets, TLC

VARIABLES
    \* ---- the external API, as seen during one run ----
    picksResp,        \* manager -> response of /entry/{id}/event/{gw}/picks/
    transfersResp,    \* manager -> response of /entry/{id}/transfers/
    summaryResp,      \* player  -> response of /element-summary/{id}/
    historyResp,      \* manager -> response of /entry/{id}/history/
    entryResp,        \* manager -> response of /entry/{id}/
    bootstrapResp,    \* response of /bootstrap-static/
    jsonErrorIsRequestException,   \* requests >= 2.27: response.json() raises a RequestException
    equalKeysKeepOrder,            \* the argsort behind sort_values leaves equal keys in row order
    \* ---- a single call of process_manager / get_manager_gw_points ----
    cPc, cRow, cPoints, cRecord,
    \* ---- calculate_adjusted_points_for_players ----
    aPc, df, futState, futOutcome, queue, results_dict, completed, aOut,
    \* ---- calculate_multi_gw_points ----
    mPc, mDf, start_gw, end_gw, calculate_transfer_gain, mFutState, mFutOutcome, mQueue,
    mResults, mOut,
    \* ---- analyze_top_n_managers ----
    tPc, tDf, top_n, tFutState, tFutOutcome, tQueue, manager_data, tOut,
    tRequests,         \* the requests the call has sent so far
    tOrder,            \* the keys of manager_data in the order of their insertion
    \* ---- get_league_standings / process_page_data ----
    scenario,          \* which part of the API's behaviour a run explores
    lPc, limit, page, has_next, standings_players, new_entries_players,
    lGw,               \* the current_gw argument, 0 for None
    pageEntries,       \* the results list of the page being processed
    pKind, pState, pOutcome, pQueue,          \* the pool of the page being processed
    page_manager_data, manager_data_dict, history_data_dict,
    reqLog,            \* the league page requests made so far, each with its answer
                       \* and the rows held when it was made
    detailLog,         \* the managers a per-manager task was submitted for, in order
    callLog,           \* the calls of get_manager_history that ran: requests and result
    lOut,
    \* ---- app.py: the Run Analysis handler ----
    binding,           \* "src": the handler calls the functions of src/utils;
                       \* "compatible": functions that accept the handler's arguments
    appPc, league_id, app_gw, app_top_n, calculate_all_adjusted, selected_division,
    appDf, analysis_results, adjusted_points_calculated,
    messages,          \* the messages shown so far, in order
    progress,          \* the progress bar and text: "none", "shown" or "cleared"
    raisedIn,          \* the stage an exception was raised in, 0 for none
    displayed          \* the sections rendered after the try block

apiVars  == <<picksResp, transfersResp, summaryResp, historyResp, entryResp, bootstrapResp,
              jsonErrorIsRequestException, equalKeysKeepOrder>>
calcVars == <<cPc, cRow, cPoints, cRecord>>
adjVars  == <<aPc, df, futState, futOutcome, queue, results_dict, completed, aOut>>
multiVars == <<mPc, mDf, start_gw, end_gw, calculate_transfer_gain, mFutState,
               mFutOutcome, mQueue, mResults, mOut>>
topVars  == <<tPc, tDf, top_n, tFutState, tFutOutcome, tQueue, manager_data, tOut,
              tRequests, tOrder>>
leagueVars == <<scenario, lPc, limit, lGw, page, has_next, standings_players,
                new_entries_players, pageEntries, pKind, pState, pOutcome, pQueue,
                page_manager_data, manager_data_dict, history_data_dict, reqLog,
                detailLog, callLog, lOut>>
appVars  == <<binding, appPc, league_id, app_gw, app_top_n, calculate_all_adjusted,
              selected_division, appDf, analysis_results, adjusted_points_calculated,
              messages, progress, raisedIn, displayed>>
vars     == <<apiVars, calcVars, adjVars, multiVars, topVars, leagueVars, appVars>>
\* what each operation leaves alone
notCalc   == <<adjVars, multiVars, topVars, leagueVars, appVars>>
notAdj    == <<calcVars, multiVars, topVars, leagueVars, appVars>>
notMulti  == <<calcVars, adjVars, topVars, leagueVars, appVars>>
notTop    == <<calcVars, adjVars, multiVars, leagueVars, appVars>>
notLeague == <<calcVars, adjVars, multiVars, topVars, appVars>>
notApp    == <<calcVars, adjVars, multiVars, topVars, leagueVars>>

(***************************************************************************)
(* Bounds of the model                                                     *)
(***************************************************************************)
MaxPicks   == 2      \* picks listed in one picks response
MaxRows    == 3      \* rows of the table handed to a fan-out stage
MaxWorkers == 2      \* max_workers of the pool (20 in the program)
MaxTransfers == 2    \* transfers listed in one transfers response
MaxPages   == 2      \* league pages the API serves in one pagination phase
MaxEntries == 2      \* entries listed on one league page
MaxLimit   == 2      \* largest limit passed to get_league_standings
LeagueWorkers == 1   \* max_workers_overall_rank (10 in the program)
GW         == 2      \* the gameweek analysed

Managers == 1..MaxRows
Players  == {1, 2}
None     == "None"                     \* Python's None
Chips    == {None, "bboost", "3xc", "manager", "wildcard", "freehit"}

(***************************************************************************)
(* Helpers                                                                 *)
(***************************************************************************)
RECURSIVE SeqsUpTo(_, _)
SeqsUpTo(S, n) ==
    IF n = 0 THEN {<<>>}
    ELSE LET shorter == SeqsUpTo(S, n - 1)
         IN  shorter \cup {Append(s, x) : s \in {t \in shorter : Len(t) = n - 1}, x \in S}

RECURSIVE SumSeq(_)
SumSeq(s) == IF s = <<>> THEN 0 ELSE Head(s) + SumSeq(Tail(s))

(***************************************************************************)
(* The API's answers                                                       *)
(***************************************************************************)
Pick      == [element : Players, position : {1, 12, 16}, is_captain : BOOLEAN]
PickLists == SeqsUpTo(Pick, MaxPicks)

\* status: "reqerr" = the request raised RequestException, "non200", "badjson" =
\* status 200 with a body response.json() cannot decode, "ok"
NoPicksBody(st) ==
    [status |-> st, points |-> 0, event_transfers_cost |-> 0,
     active_chip |-> None, picks |-> <<>>]
PicksOk ==
    [status : {"ok"}, points : {20}, event_transfers_cost : {0, 4},
     active_chip : Chips, picks : PickLists]
PicksFailures == {NoPicksBody("reqerr"), NoPicksBody("non200"), NoPicksBody("badjson")}

Transfer      == [event : {GW - 1, GW}, element_in : Players, element_out : Players]
TransfersResponses ==
    {[status |-> "reqerr", body |-> <<>>], [status |-> "non200", body |-> <<>>]}
    \cup [status : {"ok"}, body : SeqsUpTo(Transfer, 1)]

HistoryRecord == [round : {GW - 1, GW}, total_points : {3, 5}]
SummaryResponses ==
    {[status |-> "reqerr", history |-> <<>>], [status |-> "non200", history |-> <<>>]}
    \cup [status : {"ok"}, history : SeqsUpTo(HistoryRecord, 2) \ {<<>>}]

(***************************************************************************)
(* utils/calculations.py                                                   *)
(***************************************************************************)
get_manager_transfers(manager_id) ==
    IF transfersResp[manager_id].status = "ok" THEN transfersResp[manager_id].body ELSE <<>>

\* the points of the first fixture of the gameweek only
FirstRoundOnly(history, gw) ==
    LET idx == {k \in 1..Len(history) : history[k].round = gw}
    IN  IF idx = {} THEN 0
        ELSE history[CHOOSE k \in idx : \A j \in idx : k <= j].total_points
RECURSIVE SumRound(_, _)
SumRound(history, gw) ==
    IF history = <<>> THEN 0
    ELSE (IF Head(history).round = gw THEN Head(history).total_points ELSE 0)
         + SumRound(Tail(history), gw)

get_player_points(player_id, gw) ==
    LET response == summaryResp[player_id]
    IN  IF response.status = "reqerr" THEN 0
        ELSE IF response.status # "ok" THEN 0
        ELSE SumRound(response.history, gw)

RECURSIVE SumPlayers(_, _)
SumPlayers(ids, gw) ==
    IF ids = <<>> THEN 0
    ELSE get_player_points(Head(ids), gw) + SumPlayers(Tail(ids), gw)

TransferDifferenceAllEvents(manager_id, gw) ==
    LET transfers_data == get_manager_transfers(manager_id)
    IN  SumPlayers([i \in 1..Len(transfers_data) |-> transfers_data[i].element_in], gw)
        - SumPlayers([i \in 1..Len(transfers_data) |-> transfers_data[i].element_out], gw)
get_transfer_points_difference(manager_id, gw) ==
    LET transfers_data == get_manager_transfers(manager_id)
        IsGw(t)        == t.event = gw
        gw_transfers   == SelectSeq(transfers_data, IsGw)
        points_in  == SumPlayers([i \in 1..Len(gw_transfers) |-> gw_transfers[i].element_in], gw)
        points_out == SumPlayers([i \in 1..Len(gw_transfers) |-> gw_transfers[i].element_out], gw)
    IN  IF transfers_data = <<>> THEN 0
        ELSE IF gw_transfers = <<>> THEN 0
        ELSE points_in - points_out

\* the loop `for pick in picks: if cond: effect += points; break`
AllPickPoints(matching, gw) ==
    SumPlayers([i \in 1..Len(matching) |-> matching[i].element], gw)
FirstPickPoints(matching, gw) ==
    IF matching = <<>> THEN 0 ELSE get_player_points(Head(matching).element, gw)

chip_point_effect(active_chip, picks, gw) ==
    LET OnBench(p)   == p.position > 11
        IsCaptain(p) == p.is_captain
        IsManager(p) == p.position = 16
        bench        == SelectSeq(picks, OnBench)
    IN  IF active_chip = "bboost"
            THEN SumPlayers([i \in 1..Len(bench) |-> bench[i].element], gw)
        ELSE IF active_chip = "3xc" THEN FirstPickPoints(SelectSeq(picks, IsCaptain), gw)
        ELSE IF active_chip = "manager" THEN FirstPickPoints(SelectSeq(picks, IsManager), gw)
        ELSE 0

NetPointsNoChip(points, transfers_cost, effect) == points - transfers_cost
net_points_of(points, transfers_cost, effect) == points - transfers_cost - effect

\* result: [tag |-> "raise"] (an exception leaves the function), [tag |-> "None"],
\* or the dict the function returns
get_manager_gw_points(manager_id, gw) ==
    LET response == picksResp[manager_id]
        points         == response.points
        transfers_cost == response.event_transfers_cost
        effect == chip_point_effect(response.active_chip, response.picks, gw)
    IN  IF response.status = "reqerr" THEN [tag |-> "None"]
        ELSE IF response.status = "non200" THEN [tag |-> "None"]
        ELSE IF response.status = "badjson" THEN [tag |-> "raise"]
        ELSE [tag |-> "dict",
              net_points |-> net_points_of(points, transfers_cost, effect),
              transfer_adjusted_points |-> points - transfers_cost,
              raw_points |-> points,
              transfer_cost |-> transfers_cost,
              chip_effect |-> effect]

\* row.get("captain_id"): 0 (None) for a row without that column
row_get_captain_id(row) == IF "captain_id" \in DOMAIN row THEN row.captain_id ELSE 0

process_manager(row, gw) ==
    LET manager_id         == row.manager_id
        original_gw_points == row.gw_points
        captain_id         == row_get_captain_id(row)
        points_data   == get_manager_gw_points(manager_id, gw)
        transfer_gain == get_transfer_points_difference(manager_id, gw)
        captain_points ==
            IF captain_id # 0 THEN get_player_points(captain_id, gw) ELSE 0
    IN  IF points_data.tag = "raise" THEN [tag |-> "raise"]
        ELSE IF points_data.tag = "dict" THEN
            [tag |-> "dict",
             net_points |-> points_data.net_points,
             transfer_adjusted_points |-> points_data.transfer_adjusted_points,
             raw_points |-> points_data.raw_points,
             transfer_cost |-> points_data.transfer_cost,
             chip_effect |-> points_data.chip_effect,
             transfer_gain |-> transfer_gain,
             captain_points |-> captain_points]
        ELSE
            [tag |-> "dict",
             net_points |-> original_gw_points,
             transfer_adjusted_points |-> original_gw_points,
             raw_points |-> original_gw_points,
             transfer_cost |-> 0,
             chip_effect |-> 0,
             transfer_gain |-> transfer_gain,
             captain_points |-> captain_points]

\* captain_id 0: the row has no captain_id (row.get returns None)
Rows == [manager_id : Managers, gw_points : {7, 9}, captain_id : Players \cup {0}]

\* one answer of the element-summary endpoint per player, used where the claim
\* at hand is not about player points: player p scored 2p+1 in the gameweek
BaseSummary ==
    [p \in Players |->
        [status |-> "ok", history |-> <<[round |-> GW, total_points |-> 2 * p + 1]>>]]
BaseTransfers ==
    [m \in Managers |->
        [status |-> "ok", body |-> <<[event |-> GW, element_in |-> 2, element_out |-> 1]>>]]
NoRecord == [tag |-> "none"]
\* endpoints the operation at hand never calls
HistoryUnused   == historyResp = [m \in Managers |-> [status |-> "reqerr", current |-> <<>>]]
EntryUnused     == entryResp = [m \in Managers |-> [status |-> "reqerr"]]
BootstrapUnused == bootstrapResp = [status |-> "reqerr", ids |-> {}]
JsonFlagUnused  == jsonErrorIsRequestException = TRUE /\ equalKeysKeepOrder = TRUE

(***************************************************************************)
(* A single call of get_manager_gw_points and of process_manager           *)
(***************************************************************************)
InitApiCalc ==
    /\ HistoryUnused /\ EntryUnused /\ BootstrapUnused /\ JsonFlagUnused
    /\ \/ /\ \E r \in PicksOk \cup PicksFailures : picksResp = [m \in Managers |-> r]
          /\ transfersResp = BaseTransfers
          /\ summaryResp = BaseSummary
       \/ /\ picksResp = [m \in Managers |->
                            [status |-> "ok", points |-> 20, event_transfers_cost |-> 4,
                             active_chip |-> "3xc",
                             picks |-> <<[element |-> 1, position |-> 1, is_captain |-> TRUE]>>]]
          /\ \E t \in TransfersResponses : transfersResp = [m \in Managers |-> t]
          /\ summaryResp \in [Players -> SummaryResponses]
       \/ /\ picksResp = [m \in Managers |-> NoPicksBody("non200")]
          /\ \E body \in SeqsUpTo(Transfer, MaxTransfers) :
                transfersResp = [m \in Managers |-> [status |-> "ok", body |-> body]]
          /\ summaryResp = BaseSummary

AdjIdle ==
    /\ aPc = "idle" /\ df = <<>> /\ futState = <<>> /\ futOutcome = <<>>
    /\ queue = <<>> /\ results_dict = <<>> /\ completed = <<>> /\ aOut = <<>>
MultiIdle ==
    /\ mPc = "idle" /\ mDf = <<>> /\ start_gw = 0 /\ end_gw = 0
    /\ calculate_transfer_gain = FALSE /\ mFutState = <<>> /\ mFutOutcome = <<>>
    /\ mQueue = <<>> /\ mResults = <<>> /\ mOut = <<>>
TopIdle ==
    /\ tPc = "idle" /\ tDf = <<>> /\ top_n = 0 /\ tFutState = <<>> /\ tFutOutcome = <<>>
    /\ tQueue = <<>> /\ manager_data = <<>> /\ tOut = NoRecord /\ tRequests = {}
    /\ tOrder = <<>>
LeagueIdle ==
    /\ scenario = "none" /\ lPc = "idle" /\ limit = 0 /\ lGw = 0 /\ page = 0
    /\ has_next = FALSE /\ standings_players = <<>> /\ new_entries_players = <<>>
    /\ pageEntries = <<>> /\ pKind = "none" /\ pState = <<>> /\ pOutcome = <<>>
    /\ pQueue = <<>> /\ page_manager_data = <<>> /\ manager_data_dict = <<>>
    /\ history_data_dict = <<>> /\ reqLog = <<>> /\ detailLog = <<>> /\ callLog = {} /\ lOut = <<>>
AppIdle ==
    /\ binding = "src" /\ appPc = "idle" /\ league_id = 0 /\ app_gw = 0 /\ app_top_n = 0
    /\ calculate_all_adjusted = FALSE /\ selected_division = None /\ appDf = <<>>
    /\ analysis_results = None /\ adjusted_points_calculated = FALSE
    /\ messages = <<>> /\ progress = "none" /\ raisedIn = 0 /\ displayed = {}
CalcIdle ==
    /\ cPc = "idle" /\ cRow = [manager_id |-> 1, gw_points |-> 7, captain_id |-> 0]
    /\ cPoints = NoRecord /\ cRecord = NoRecord

\* one operation is exercised at a time; the others stay idle
OnlyCalc   == AdjIdle /\ MultiIdle /\ TopIdle /\ LeagueIdle /\ AppIdle
OnlyAdj    == CalcIdle /\ MultiIdle /\ TopIdle /\ LeagueIdle /\ AppIdle
OnlyMulti  == CalcIdle /\ AdjIdle /\ TopIdle /\ LeagueIdle /\ AppIdle
OnlyTop    == CalcIdle /\ AdjIdle /\ MultiIdle /\ LeagueIdle /\ AppIdle
OnlyLeague == CalcIdle /\ AdjIdle /\ MultiIdle /\ TopIdle /\ AppIdle
OnlyApp    == CalcIdle /\ AdjIdle /\ MultiIdle /\ TopIdle /\ LeagueIdle

InitCalc ==
    /\ InitApiCalc
    /\ cPc = "ready"
    /\ cRow \in Rows
    /\ cPoints = NoRecord
    /\ cRecord = NoRecord
    /\ OnlyCalc

CallGetManagerGwPoints ==
    /\ cPc = "ready"
    /\ cPoints' = get_manager_gw_points(cRow.manager_id, GW)
    /\ cPc' = "points"
    /\ UNCHANGED <<cRow, cRecord, apiVars, notCalc>>

CallProcessManager ==
    /\ cPc = "points"
    /\ cRecord' = process_manager(cRow, GW)
    /\ cPc' = "done"
    /\ UNCHANGED <<cRow, cPoints, apiVars, notCalc>>

NextCalc == CallGetManagerGwPoints \/ CallProcessManager
SpecCalc == InitCalc /\ [][NextCalc]_vars

\* C2: every record produced by get_manager_gw_points or process_manager (the
\* fallback record of a failed picks request included) satisfies
\* net_points = raw_points - transfer_cost - chip_effect and
\* transfer_adjusted_points = raw_points - transfer_cost.
RecordIdentity(r) ==
    r.tag = "dict" =>
        /\ r.net_points = r.raw_points - r.transfer_cost - r.chip_effect
        /\ r.transfer_adjusted_points = r.raw_points - r.transfer_cost
C2_NetPointsIdentity == RecordIdentity(cPoints) /\ RecordIdentity(cRecord)
\* a chip with a non-zero effect and a transfer cost were netted, and the fallback
\* record of a failed picks request was produced in another run
C2_Witness ==
    /\ cPc = "done" /\ cPoints.tag = "dict" /\ cRecord.tag = "dict"
    /\ cRecord.chip_effect > 0 /\ cRecord.transfer_cost > 0
C2_FallbackReached ==
    /\ cPc = "done" /\ cPoints.tag = "None" /\ cRecord.tag = "dict"
    /\ cRecord.net_points = cRow.gw_points

\* the gameweek points of a player, as the element-summary endpoint reports them
GwPoints(player) ==
    LET r == summaryResp[player]
    IN  IF r.status # "ok" THEN 0
        ELSE SumSeq([k \in 1..Len(r.history) |->
                       IF r.history[k].round = GW THEN r.history[k].total_points ELSE 0])
\* the lowest index of picks at which Flag holds, 0 when there is none
FirstIndex(picks, Flag(_)) ==
    IF \E k \in 1..Len(picks) : Flag(picks[k])
    THEN CHOOSE k \in 1..Len(picks) :
             Flag(picks[k]) /\ \A j \in 1..(k - 1) : ~Flag(picks[j])
    ELSE 0
ExpectedChipEffect(response) ==
    LET picks == response.picks
        IsCaptain(p) == p.is_captain
        IsManager(p) == p.position = 16
        captain == FirstIndex(picks, IsCaptain)
        manager == FirstIndex(picks, IsManager)
    IN  CASE response.active_chip = "bboost" ->
               SumSeq([k \in 1..Len(picks) |->
                         IF picks[k].position > 11 THEN GwPoints(picks[k].element) ELSE 0])
          [] response.active_chip = "3xc" ->
               IF captain = 0 THEN 0 ELSE GwPoints(picks[captain].element)
          [] response.active_chip = "manager" ->
               IF manager = 0 THEN 0 ELSE GwPoints(picks[manager].element)
          [] OTHER -> 0

\* C11: the chip effect get_manager_gw_points reports is, with 'bboost', the sum of
\* the gameweek points of the picks at position > 11; with '3xc', the gameweek
\* points of the first pick flagged is_captain, once; with 'manager', those of the
\* first pick at position 16; with any other chip or none, 0.
C11_ChipEffect ==
    cPoints.tag = "dict" =>
        cPoints.chip_effect = ExpectedChipEffect(picksResp[cRow.manager_id])
\* a triple-captain response flags two different players as captain, and the
\* effect is the first one's points
C11_Witness ==
    /\ cPoints.tag = "dict"
    /\ LET r == picksResp[cRow.manager_id]
       IN  /\ r.active_chip = "3xc" /\ Len(r.picks) = 2
           /\ r.picks[1].is_captain /\ r.picks[2].is_captain
           /\ r.picks[1].element # r.picks[2].element
           /\ cPoints.chip_effect = GwPoints(r.picks[1].element)
           /\ cPoints.chip_effect > 0

ExpectedTransferGain(response) ==
    IF response.status # "ok" THEN 0
    ELSE SumSeq([k \in 1..Len(response.body) |->
                   IF response.body[k].event = GW
                   THEN GwPoints(response.body[k].element_in)
                        - GwPoints(response.body[k].element_out)
                   ELSE 0])

\* C12: get_transfer_points_difference returns, over the manager's transfers of the
\* gameweek, the points of the players brought in minus the points of the players
\* sold, and 0 when the transfers request failed, listed nothing, or listed no
\* transfer of the gameweek.
C12_TransferDifference ==
    (cPc = "done" /\ cRecord.tag = "dict") =>
        cRecord.transfer_gain = ExpectedTransferGain(transfersResp[cRow.manager_id])
\* of two listed transfers only one belongs to the gameweek, and it alone is counted
C12_Witness ==
    /\ cPc = "done"
    /\ LET body == transfersResp[cRow.manager_id].body
       IN  /\ Len(body) = 2
           /\ body[1].event # GW /\ body[2].event = GW
           /\ body[1].element_in # body[1].element_out
           /\ body[2].element_in # body[2].element_out
    /\ cRecord.transfer_gain # 0

\* C22: get_player_points returns the sum of total_points over the records of the
\* player's history whose round is the gameweek (both fixtures of a double
\* gameweek, 0 when there is none), and 0 when the request raises or answers with
\* a non-200 status. Read off captain_points, which process_manager takes from
\* get_player_points(captain_id, gw).
C22_PlayerPoints ==
    (cPc = "done" /\ cRecord.tag = "dict" /\ cRow.captain_id # 0) =>
        LET r       == summaryResp[cRow.captain_id]
            in_gw   == {k \in 1..Len(r.history) : r.history[k].round = GW}
            Score(k) == r.history[k].total_points
        IN  /\ cRecord.captain_points = GwPoints(cRow.captain_id)
            /\ r.status \in {"reqerr", "non200"} => cRecord.captain_points = 0
            /\ (r.status = "ok" /\ in_gw = {}) => cRecord.captain_points = 0
            /\ (r.status = "ok" /\ in_gw = {1}) => cRecord.captain_points = Score(1)
            /\ (r.status = "ok" /\ in_gw = {2}) => cRecord.captain_points = Score(2)
            /\ (r.status = "ok" /\ in_gw = {1, 2}) =>
                  cRecord.captain_points = Score(1) + Score(2)
\* the captain played two fixtures in the gameweek, scoring 3 and 5
C22_Witness ==
    /\ cPc = "done" /\ cRecord.tag = "dict" /\ cRow.captain_id = 2
    /\ summaryResp[2].status = "ok" /\ Len(summaryResp[2].history) = 2
    /\ summaryResp[2].history[1] = [round |-> GW, total_points |-> 3]
    /\ summaryResp[2].history[2] = [round |-> GW, total_points |-> 5]
    /\ cRecord.captain_points = 8
\* the element-summary request of the captain failed
C22_FailureReached ==
    /\ cPc = "done" /\ cRecord.tag = "dict" /\ cRow.captain_id = 2
    /\ summaryResp[2].status = "reqerr" /\ cRecord.captain_points = 0

(***************************************************************************)
(* calculate_adjusted_points_for_players: one pool, one task per row       *)
(***************************************************************************)
Index == 1..Len(df)                      \* df.index (a RangeIndex)

\* the answer of the picks endpoint for manager m in these runs
AdjPicks(m) ==
    {NoPicksBody("reqerr"), NoPicksBody("badjson"),
     [status |-> "ok", points |-> 20 + m, event_transfers_cost |-> 4,
      active_chip |-> "3xc",
      picks |-> <<[element |-> 1, position |-> 1, is_captain |-> TRUE]>>]}

InitAdj ==
    /\ \E n \in 1..MaxRows, c \in {0, 1} :
          df \in [1..n -> [manager_id : Managers, gw_points : {7, 9}, captain_id : {c}]]
    /\ \A i \in Index : df[i].manager_id = i
    /\ picksResp \in [Managers -> UNION {AdjPicks(m) : m \in Managers}]
    /\ \A m \in Managers : picksResp[m] \in AdjPicks(m)
    /\ \A m \in Managers : m > Len(df) => picksResp[m] = NoPicksBody("reqerr")
    /\ transfersResp = BaseTransfers
    /\ summaryResp = BaseSummary
    /\ HistoryUnused /\ EntryUnused /\ BootstrapUnused /\ JsonFlagUnused
    /\ aPc = "submit"
    /\ futState = [i \in Index |-> "unsubmitted"]
    /\ futOutcome = [i \in Index |-> NoRecord]
    /\ queue = <<>>
    /\ results_dict = [i \in Index |-> NoRecord]
    /\ completed = <<>>
    /\ aOut = <<>>
    /\ OnlyAdj

Running == {i \in Index : futState[i] = "running"}

\* ThreadPoolExecutor(max_workers=max_workers): a queued task starts only on a
\* worker thread, and the pool has at most max_workers of them
PoolUnbounded(running, max_workers) == TRUE
PoolHasIdleWorker(running, max_workers) == Cardinality(running) < max_workers

\* executor.submit(process_manager, row, gw, _session) for the next row of df.iterrows()
Submit ==
    /\ aPc = "submit"
    /\ LET i == Cardinality({j \in Index : futState[j] # "unsubmitted"}) + 1
       IN  /\ futState[i] = "unsubmitted"
           /\ futState' = [futState EXCEPT ![i] = "pending"]
           /\ queue' = Append(queue, i)
           /\ aPc' = IF i = Len(df) THEN "collect" ELSE "submit"
    /\ UNCHANGED <<df, futOutcome, results_dict, completed, aOut, apiVars, notAdj>>

\* a worker thread takes the oldest queued task
StartTask ==
    /\ queue # <<>>
    /\ PoolHasIdleWorker(Running, MaxWorkers)
    /\ futState' = [futState EXCEPT ![Head(queue)] = "running"]
    /\ queue' = Tail(queue)
    /\ UNCHANGED <<aPc, df, futOutcome, results_dict, completed, aOut, apiVars, notAdj>>

\* the task's process_manager call ends: a result or an exception is set on the future
FinishTask(i) ==
    /\ futState[i] = "running"
    /\ futOutcome' = [futOutcome EXCEPT ![i] = process_manager(df[i], GW)]
    /\ futState' = [futState EXCEPT ![i] = "finished"]
    /\ UNCHANGED <<aPc, df, queue, results_dict, completed, aOut, apiVars, notAdj>>

\* results_dict[original_index] after future.result() returned or raised
collected_result(outcome, row) ==
    IF outcome.tag = "raise" THEN [tag |-> "scalar", value |-> row.gw_points]
    ELSE outcome

\* one iteration of `for i, future in enumerate(as_completed(future_to_index))`
Collect(i) ==
    /\ aPc = "collect"
    /\ futState[i] = "finished"
    /\ futState' = [futState EXCEPT ![i] = "yielded"]
    /\ results_dict' = [results_dict EXCEPT ![i] = collected_result(futOutcome[i], df[i])]
    /\ completed' = Append(completed, i)
    /\ aPc' = IF \A j \in Index \ {i} : futState[j] = "yielded" THEN "assemble" ELSE "collect"
    /\ UNCHANGED <<df, futOutcome, queue, aOut, apiVars, notAdj>>

\* all_results = [results_dict[index] for index in df.index]
AllResultsByCompletion(results, order) == [k \in 1..Len(order) |-> results[order[k]]]
all_results_of(results, order) == [index \in DOMAIN results |-> results[index]]

\* the column assignments: result['net_points'] for result in all_results, ...
Assemble ==
    /\ aPc = "assemble"
    /\ LET all_results == all_results_of(results_dict, completed)
       IN  IF \E k \in 1..Len(all_results) : all_results[k].tag # "dict"
           THEN /\ aPc' = "raised"          \* subscripting a number raises
                /\ aOut' = <<>>
           ELSE /\ aPc' = "returned"
                /\ aOut' = [k \in Index |->
                     [manager_id |-> df[k].manager_id,
                      gw_points |-> df[k].gw_points,
                      net_points |-> all_results[k].net_points,
                      transfer_adjusted_points |-> all_results[k].transfer_adjusted_points,
                      transfer_cost |-> all_results[k].transfer_cost,
                      chip_effect |-> all_results[k].chip_effect,
                      transfer_gain |-> all_results[k].transfer_gain,
                      captain_points |-> all_results[k].captain_points]]
    /\ UNCHANGED <<df, futState, futOutcome, queue, results_dict, completed, apiVars, notAdj>>

NextAdj ==
    \/ Submit
    \/ StartTask
    \/ \E i \in Index : FinishTask(i)
    \/ \E i \in Index : Collect(i)
    \/ Assemble
SpecAdj == InitAdj /\ [][NextAdj]_vars

Raised(i) == process_manager(df[i], GW).tag = "raise"
OwnValues(row, r) ==
    /\ row.net_points = r.net_points
    /\ row.transfer_cost = r.transfer_cost
    /\ row.chip_effect = r.chip_effect
    /\ row.transfer_gain = r.transfer_gain
    /\ row.captain_points = r.captain_points

\* C1: when process_manager raises for one manager, the call still returns one
\* row per input manager, the failed manager's net_points is that row's gw_points,
\* and the other managers' values are the computed ones.
C1_FailedTaskDoesNotAbort ==
    (aPc \in {"returned", "raised"} /\ \E i \in Index : Raised(i)) =>
        /\ aPc = "returned"
        /\ Len(aOut) = Len(df)
        /\ \A i \in Index :
              IF Raised(i) THEN aOut[i].net_points = df[i].gw_points
              ELSE OwnValues(aOut[i], process_manager(df[i], GW))

\* C8: whatever the order in which the tasks complete, a call that returns gives
\* the rows in the input table's order, each with the values computed for its own
\* manager.
C8_RowsKeepOwnResults ==
    aPc = "returned" =>
        /\ Len(aOut) = Len(df)
        /\ \A i \in Index :
              /\ aOut[i].manager_id = df[i].manager_id
              /\ OwnValues(aOut[i], process_manager(df[i], GW))
\* the call returned although the tasks completed in another order than the rows,
\* and two rows carry different values
C8_Witness ==
    /\ aPc = "returned"
    /\ Len(completed) >= 2
    /\ completed[1] > completed[2]
    /\ aOut[1].net_points # aOut[2].net_points

(***************************************************************************)
(* calculate_multi_gw_points: one pool, one task per row                   *)
(***************************************************************************)
\* get_manager_history of calculations.py: the whole history, or None
get_manager_history(manager_id) ==
    LET h == historyResp[manager_id]
    IN  IF h.status = "ok" THEN [tag |-> "dict", current |-> h.current, chips |-> h.chips]
        ELSE [tag |-> "None", current |-> <<>>, chips |-> <<>>]

\* get_manager_picks: the picks of the gameweek, or None
get_manager_picks(manager_id, gw) ==
    LET p == picksResp[manager_id]
    IN  IF p.status = "ok" THEN [tag |-> "dict", picks |-> p.picks,
                                 points_on_bench |-> p.points_on_bench]
        ELSE [tag |-> "None", picks |-> <<>>, points_on_bench |-> 0]

\* every gameweek up to the last one
GameweeksFromOne(first, last) == [k \in 1..last |-> k]
\* list(range(start_gw, end_gw + 1))
gameweeks_of(first, last) ==
    IF last < first THEN <<>> ELSE [k \in 1..(last - first + 1) |-> first + k - 1]

\* current_history[gw] of the dict {h['event']: h for h in current}
HasEvent(current, gw) == \E k \in 1..Len(current) : current[k].event = gw
EventRecord(current, gw) ==
    current[CHOOSE k \in 1..Len(current) :
               /\ current[k].event = gw
               /\ \A j \in (k + 1)..Len(current) : current[j].event # gw]

\* lines 318-334: the captain points and the bench points of one gameweek
captain_points_of(picks_data, gw) ==
    LET IsCaptain(p) == p.is_captain
    IN  IF picks_data.tag = "dict"
        THEN FirstPickPoints(SelectSeq(picks_data.picks, IsCaptain), gw)
        ELSE 0
bench_points_of(picks_data) ==
    IF picks_data.tag = "dict" THEN picks_data.points_on_bench ELSE 0

\* lines 356-367: the transfer gain of one gameweek
transfer_gain_of(all_transfers, gw) ==
    LET IsGw(t)      == t.event = gw
        gw_transfers == SelectSeq(all_transfers, IsGw)
    IN  SumPlayers([i \in 1..Len(gw_transfers) |-> gw_transfers[i].element_in], gw)
        - SumPlayers([i \in 1..Len(gw_transfers) |-> gw_transfers[i].element_out], gw)

\* get_multi_gw_manager_data: [tag |-> "raise"] or the dict it returns
get_multi_gw_manager_data(manager_id, gameweeks, with_gain) ==
    LET history_data == get_manager_history(manager_id)
        GwSet        == {gameweeks[k] : k \in 1..Len(gameweeks)}
        Over(f(_))   == SumSeq([k \in 1..Len(gameweeks) |-> f(gameweeks[k])])
        HistPoints(gw) == IF HasEvent(history_data.current, gw)
                          THEN EventRecord(history_data.current, gw).points ELSE 0
        HistCost(gw)   == IF HasEvent(history_data.current, gw)
                          THEN EventRecord(history_data.current, gw).event_transfers_cost
                          ELSE 0
        Captain(gw)    == captain_points_of(get_manager_picks(manager_id, gw), gw)
        Bench(gw)      == bench_points_of(get_manager_picks(manager_id, gw))
        points_data(gw) == get_manager_gw_points(manager_id, gw)
        FallPoints(gw) == IF points_data(gw).tag = "dict" THEN points_data(gw).raw_points ELSE 0
        FallCost(gw)   == IF points_data(gw).tag = "dict" THEN points_data(gw).transfer_cost ELSE 0
        Gain(gw)       == transfer_gain_of(get_manager_transfers(manager_id), gw)
        InRange(c)     == c.event \in GwSet
        found          == history_data.tag = "dict"
        total_gw_points     == IF found THEN Over(HistPoints) ELSE Over(FallPoints)
        total_transfer_cost == IF found THEN Over(HistCost) ELSE Over(FallCost)
    IN  IF ~found /\ \E gw \in GwSet : points_data(gw).tag = "raise"
        THEN [tag |-> "raise"]
        ELSE [tag |-> "dict",
              gw_points |-> total_gw_points,
              net_points |-> total_gw_points - total_transfer_cost,
              transfer_adjusted_points |-> total_gw_points - total_transfer_cost,
              transfer_cost |-> total_transfer_cost,
              chip_effect |-> 0,
              transfer_gain |-> IF with_gain THEN Over(Gain) ELSE 0,
              captain_points |-> IF found THEN Over(Captain) ELSE 0,
              points_on_bench |-> IF found THEN Over(Bench) ELSE 0,
              chips_used |-> IF found THEN SelectSeq(history_data.chips, InRange) ELSE <<>>]

process_manager_multi_gw(row, gameweeks, with_gain) ==
    get_multi_gw_manager_data(row.manager_id, gameweeks, with_gain)

\* a handler that stored the row's previous gw_points for a task that raised
StaleResult ==
    [tag |-> "dict", gw_points |-> 7, net_points |-> 0, transfer_adjusted_points |-> 0,
     transfer_cost |-> 0, chip_effect |-> 0, transfer_gain |-> 0, captain_points |-> 0,
     points_on_bench |-> 0, chips_used |-> <<>>]

\* the record stored for a task that raised
ZeroResult ==
    [tag |-> "dict", gw_points |-> 0, net_points |-> 0, transfer_adjusted_points |-> 0,
     transfer_cost |-> 0, chip_effect |-> 0, transfer_gain |-> 0, captain_points |-> 0,
     points_on_bench |-> 0, chips_used |-> <<>>]

MIndex   == 1..Len(mDf)
MRunning == {i \in MIndex : mFutState[i] = "running"}

MultiHistoryOk(m) ==
    [status |-> "ok",
     current |-> <<[event |-> GW - 1, points |-> 30 + m, event_transfers_cost |-> 0],
                   [event |-> GW, points |-> 40 + m, event_transfers_cost |-> 4]>>,
     chips |-> <<[event |-> GW, name |-> "bboost"]>>]
MultiHistoryFailure == [status |-> "reqerr", current |-> <<>>, chips |-> <<>>]
\* a manager who joined late or left: the history lacks the current gameweek
MultiHistoryOld(m) ==
    [status |-> "ok",
     current |-> <<[event |-> GW - 1, points |-> 30 + m, event_transfers_cost |-> 4]>>,
     chips |-> <<>>]
MultiPicksOk(m) ==
    [status |-> "ok", points |-> 20 + m, event_transfers_cost |-> 4, active_chip |-> None,
     points_on_bench |-> 5,
     picks |-> <<[element |-> 1, position |-> 1, is_captain |-> TRUE]>>]
MultiPicksFailure(st) ==
    [status |-> st, points |-> 0, event_transfers_cost |-> 0, active_chip |-> None,
     points_on_bench |-> 0, picks |-> <<>>]
\* what the history and the picks endpoints answer for manager m in these runs
MultiAnswers(m) ==
    {<<MultiHistoryOk(m), MultiPicksOk(m)>>,
     <<MultiHistoryOk(m), MultiPicksFailure("non200")>>,
     <<MultiHistoryOld(m), MultiPicksOk(m)>>,
     <<MultiHistoryFailure, MultiPicksOk(m)>>,
     <<MultiHistoryFailure, MultiPicksFailure("badjson")>>}

InitMulti ==
    /\ \E n \in 1..MaxRows : mDf = [i \in 1..n |-> [manager_id |-> i, gw_points |-> 7]]
    /\ \E a \in [Managers -> UNION {MultiAnswers(m) : m \in Managers}] :
          /\ \A m \in Managers : a[m] \in MultiAnswers(m)
          /\ \A m \in Managers : m > Len(mDf) => a[m] = <<MultiHistoryOk(m), MultiPicksOk(m)>>
          /\ historyResp = [m \in Managers |-> a[m][1]]
          /\ picksResp = [m \in Managers |-> a[m][2]]
    /\ transfersResp = BaseTransfers
    /\ summaryResp = BaseSummary
    /\ EntryUnused /\ BootstrapUnused /\ JsonFlagUnused
    /\ start_gw \in {GW - 1, GW}
    /\ end_gw = GW
    /\ calculate_transfer_gain \in BOOLEAN
    /\ mPc = "submit"
    /\ mFutState = [i \in MIndex |-> "unsubmitted"]
    /\ mFutOutcome = [i \in MIndex |-> NoRecord]
    /\ mQueue = <<>>
    /\ mResults = [i \in MIndex |-> NoRecord]
    /\ mOut = <<>>
    /\ OnlyMulti

MSubmit ==
    /\ mPc = "submit"
    /\ LET i == Cardinality({j \in MIndex : mFutState[j] # "unsubmitted"}) + 1
       IN  /\ mFutState[i] = "unsubmitted"
           /\ mFutState' = [mFutState EXCEPT ![i] = "pending"]
           /\ mQueue' = Append(mQueue, i)
           /\ mPc' = IF i = Len(mDf) THEN "collect" ELSE "submit"
    /\ UNCHANGED <<mDf, start_gw, end_gw, calculate_transfer_gain, mFutOutcome, mResults,
                   mOut, apiVars, notMulti>>

MStartTask ==
    /\ mQueue # <<>>
    /\ PoolHasIdleWorker(MRunning, MaxWorkers)
    /\ mFutState' = [mFutState EXCEPT ![Head(mQueue)] = "running"]
    /\ mQueue' = Tail(mQueue)
    /\ UNCHANGED <<mPc, mDf, start_gw, end_gw, calculate_transfer_gain, mFutOutcome,
                   mResults, mOut, apiVars, notMulti>>

MFinishTask(i) ==
    /\ mFutState[i] = "running"
    /\ mFutOutcome' = [mFutOutcome EXCEPT ![i] =
          process_manager_multi_gw(mDf[i], gameweeks_of(start_gw, end_gw),
                                   calculate_transfer_gain)]
    /\ mFutState' = [mFutState EXCEPT ![i] = "finished"]
    /\ UNCHANGED <<mPc, mDf, start_gw, end_gw, calculate_transfer_gain, mQueue, mResults,
                   mOut, apiVars, notMulti>>

\* one iteration of the as_completed loop of calculate_multi_gw_points
MCollect(i) ==
    /\ mPc = "collect"
    /\ mFutState[i] = "finished"
    /\ mFutState' = [mFutState EXCEPT ![i] = "yielded"]
    /\ mResults' = [mResults EXCEPT ![i] =
          IF mFutOutcome[i].tag = "raise" THEN ZeroResult ELSE mFutOutcome[i]]
    /\ mPc' = IF \A j \in MIndex \ {i} : mFutState[j] = "yielded" THEN "assemble"
              ELSE "collect"
    /\ UNCHANGED <<mDf, start_gw, end_gw, calculate_transfer_gain, mFutOutcome, mQueue,
                   mOut, apiVars, notMulti>>

\* lines 438-462: the columns are overwritten with the aggregated values
MAssemble ==
    /\ mPc = "assemble"
    /\ mOut' = [k \in MIndex |->
                  [manager_id |-> mDf[k].manager_id,
                   gw_points |-> mResults[k].gw_points,
                   net_points |-> mResults[k].net_points,
                   transfer_adjusted_points |-> mResults[k].transfer_adjusted_points,
                   transfer_cost |-> mResults[k].transfer_cost,
                   chip_effect |-> mResults[k].chip_effect,
                   transfer_gain |-> mResults[k].transfer_gain,
                   captain_points |-> mResults[k].captain_points,
                   points_on_bench |-> mResults[k].points_on_bench,
                   chips_used |-> mResults[k].chips_used]]
    /\ mPc' = "returned"
    /\ UNCHANGED <<mDf, start_gw, end_gw, calculate_transfer_gain, mFutState, mFutOutcome,
                   mQueue, mResults, apiVars, notMulti>>

NextMulti ==
    \/ MSubmit
    \/ MStartTask
    \/ \E i \in MIndex : MFinishTask(i)
    \/ \E i \in MIndex : MCollect(i)
    \/ MAssemble
SpecMulti == InitMulti /\ [][NextMulti]_vars

\* what the task of row k does, and the columns of a returned row
TaskOf(k) ==
    process_manager_multi_gw(mDf[k], gameweeks_of(start_gw, end_gw), calculate_transfer_gain)
ColumnsOf(r) ==
    <<r.gw_points, r.net_points, r.transfer_adjusted_points, r.transfer_cost,
      r.chip_effect, r.transfer_gain, r.captain_points, r.points_on_bench, r.chips_used>>

\* C14: when calculate_multi_gw_points returns, there is one row per row of the
\* table it was given, in the same order; the row of a manager whose task raised
\* holds 0 in the eight numeric columns and no chips, and every other row holds
\* the values its own task returned.
C14_RaisedTaskGetsZeroRow ==
    mPc = "returned" =>
        /\ Len(mOut) = Len(mDf)
        /\ \A k \in MIndex :
              /\ mOut[k].manager_id = mDf[k].manager_id
              /\ ColumnsOf(mOut[k]) =
                    IF TaskOf(k).tag = "raise" THEN <<0, 0, 0, 0, 0, 0, 0, 0, <<>>>>
                    ELSE ColumnsOf(TaskOf(k))
C14_Witness ==
    /\ mPc = "returned"
    /\ Len(mOut) = 3
    /\ TaskOf(2).tag = "raise"
    /\ TaskOf(1).tag = "dict" /\ mOut[1].gw_points > 0 /\ mOut[1].chips_used # <<>>
    /\ TaskOf(3).tag = "dict" /\ mOut[3].gw_points > 0
    /\ mOut[2].gw_points = 0

(***************************************************************************)
(* utils/top_n_analysis.py                                                 *)
(***************************************************************************)
ChipNames == {"wildcard", "3xc", "bboost", "freehit", "manager"}   \* keys of chip_counts
NoData    == [picks |-> <<>>, transfers |-> <<>>, has_picks |-> FALSE,
              has_transfers |-> FALSE, active_chip |-> None]

\* load_player_data: the ids of the player table, {} when the request failed
load_player_data ==
    IF bootstrapResp.status = "ok" THEN bootstrapResp.ids ELSE {}

\* what `except requests.exceptions.RequestException` does with the error of
\* response.json() on a body that is no JSON
JsonErrorEscapes(wrapped) == ~wrapped

\* fetch_data_for_manager: [tag |-> "raise"] or the results dict it returns
fetch_data_for_manager(manager_id, current_gw) ==
    LET p == picksResp[manager_id]
        t == transfersResp[manager_id]
        escapes == JsonErrorEscapes(jsonErrorIsRequestException)
        empty == [tag |-> "ok", results |-> NoData]
        with_picks ==
            IF p.status = "ok"
            THEN [NoData EXCEPT !.has_picks = TRUE, !.picks = p.picks,
                                !.active_chip = p.active_chip]
            ELSE NoData
    IN  IF p.status = "reqerr" THEN empty
        ELSE IF p.status = "badjson" THEN (IF escapes THEN [tag |-> "raise"] ELSE empty)
        ELSE IF t.status = "reqerr" THEN empty
        ELSE IF t.status = "badjson" THEN (IF escapes THEN [tag |-> "raise"] ELSE empty)
        ELSE IF t.status = "ok"
             THEN [tag |-> "ok",
                   results |-> [with_picks EXCEPT !.has_transfers = TRUE, !.transfers = t.body]]
        ELSE [tag |-> "ok", results |-> with_picks]

\* the requests one task sends: the transfers URL is requested unless the picks
\* request or the decoding of its body raised
task_requests(manager_id) ==
    {[endpoint |-> "picks", entry |-> manager_id]} \cup
    (IF picksResp[manager_id].status \in {"reqerr", "badjson"} THEN {}
     ELSE {[endpoint |-> "transfers", entry |-> manager_id]})

\* `if results:` a dict with no key is not stored
Stored(results) == results.has_picks \/ results.has_transfers

TIndex == 1..Len(tDf)
actual_n == IF top_n < Len(tDf) THEN top_n ELSE Len(tDf)

\* df.nsmallest(actual_n, "rank"): row i is kept when fewer than actual_n rows
\* come before it in (rank, position) order
top_rows ==
    {i \in TIndex :
        Cardinality({j \in TIndex : \/ tDf[j].rank < tDf[i].rank
                                    \/ (tDf[j].rank = tDf[i].rank /\ j < i)}) < actual_n}

\* a count that adds one per pick of a manager with the chip
ChipCountsPerPick(data) ==
    [c \in ChipNames |->
        Cardinality(UNION {{<<i, k>> : k \in 1..Len(data[i].results.picks)} :
            i \in {j \in DOMAIN data : /\ data[j].tag = "stored"
                                        /\ data[j].results.has_picks
                                        /\ data[j].results.active_chip = c}})]
\* the statistics gathered from manager_data (lines 123-189); lines 129-130: one
\* per manager whose stored picks name a chip that is a key of chip_counts
chip_counts_of(data) ==
    [c \in ChipNames |->
        Cardinality({i \in DOMAIN data : /\ data[i].tag = "stored"
                                          /\ data[i].results.has_picks
                                          /\ data[i].results.active_chip = c})]
\* the (manager, position) pairs of the stored pick lists and transfer lists
PickSlots(data) ==
    UNION {{<<i, k>> : k \in 1..Len(data[i].results.picks)} :
              i \in {j \in DOMAIN data : data[j].tag = "stored" /\ data[j].results.has_picks}}
TransferSlots(data) ==
    UNION {{<<i, k>> : k \in 1..Len(data[i].results.transfers)} :
              i \in {j \in DOMAIN data : data[j].tag = "stored" /\ data[j].results.has_transfers}}

\* lines 154-161: the first captain of a manager on 3xc, the first pick at
\* position 16 of a manager on the manager chip
triple_captain_count_of(data, player) ==
    Cardinality({s \in PickSlots(data) :
        /\ data[s[1]].results.active_chip = "3xc"
        /\ data[s[1]].results.picks[s[2]].is_captain
        /\ \A k \in 1..(s[2] - 1) : ~data[s[1]].results.picks[k].is_captain
        /\ data[s[1]].results.picks[s[2]].element = player})
manager_pick_count_of(data, player) ==
    Cardinality({s \in PickSlots(data) :
        /\ data[s[1]].results.active_chip = "manager"
        /\ data[s[1]].results.picks[s[2]].position = 16
        /\ \A k \in 1..(s[2] - 1) : data[s[1]].results.picks[k].position # 16
        /\ data[s[1]].results.picks[s[2]].element = player})
captain_count_of(data, player) ==
    Cardinality({s \in PickSlots(data) :
        /\ data[s[1]].results.picks[s[2]].element = player
        /\ data[s[1]].results.picks[s[2]].is_captain})
\* a count of the transfers of every gameweek
TransfersInAnyEvent(data, player, current_gw) ==
    Cardinality({s \in TransferSlots(data) :
        data[s[1]].results.transfers[s[2]].element_in = player})
\* lines 168-189: a transfer counts when its event is the current gameweek
transfer_in_count_of(data, player, current_gw) ==
    Cardinality({s \in TransferSlots(data) :
        /\ data[s[1]].results.transfers[s[2]].event = current_gw
        /\ data[s[1]].results.transfers[s[2]].element_in = player})
transfer_out_count_of(data, player, current_gw) ==
    Cardinality({s \in TransferSlots(data) :
        /\ data[s[1]].results.transfers[s[2]].event = current_gw
        /\ data[s[1]].results.transfers[s[2]].element_out = player})

\* df.head(actual_n) in place of df.nsmallest(actual_n, "rank")
TablePosition(i) == i

\* .head(10) of the captain, transfers-in and transfers-out tables
TopTableSize == 10

\* the rows of df.nsmallest(actual_n, "rank") in their order, as manager ids
RankPosition(i) ==
    Cardinality({j \in TIndex : \/ tDf[j].rank < tDf[i].rank
                                \/ (tDf[j].rank = tDf[i].rank /\ j < i)}) + 1
manager_ids ==
    [k \in 1..actual_n |-> tDf[CHOOSE i \in TIndex : RankPosition(i) = k].entry]

TFutures == DOMAIN tFutState
TRunning == {k \in TFutures : tFutState[k] = "running"}
EmptyResults ==
    [kind |-> "empty", chip_counts |-> [c \in ChipNames |-> 0],
     captains |-> <<>>, transfers_in |-> <<>>, transfers_out |-> <<>>,
     manager_picks |-> [p \in {} |-> 0], triple_captains |-> [p \in {} |-> 0]]
NotStored == [tag |-> "absent", results |-> NoData]

\* the players a statistics table lists: a count above 0 and a known name
TableOf(count(_), names) ==
    LET listed == {p \in names : count(p) > 0} IN [p \in listed |-> count(p)]

\* the keys of player_stats in the order of their insertion (lines 123-189):
\* manager_data is walked in the order its keys were stored; per manager the
\* elements of the picks, then element_in and element_out of each transfer of
\* the current gameweek; a key is inserted once, where it is first met
touched_by(results, current_gw) ==
    LET picked == [k \in 1..Len(results.picks) |-> results.picks[k].element]
        moved  == [k \in 1..(2 * Len(results.transfers)) |->
                     IF k % 2 = 1 THEN results.transfers[(k + 1) \div 2].element_in
                     ELSE results.transfers[k \div 2].element_out]
        now(k) == results.transfers[(k + 1) \div 2].event = current_gw
        kept   == {k \in DOMAIN moved : now(k)}
        nth(i) == CHOOSE k \in kept : Cardinality({j \in kept : j < k}) = i - 1
    IN  (IF results.has_picks THEN picked ELSE <<>>)
        \o (IF results.has_transfers
            THEN [i \in 1..Cardinality(kept) |-> moved[nth(i)]] ELSE <<>>)
RECURSIVE touched_in_order(_, _, _)
touched_in_order(data, order, current_gw) ==
    IF order = <<>> THEN <<>>
    ELSE touched_by(data[Head(order)].results, current_gw)
         \o touched_in_order(data, Tail(order), current_gw)
RECURSIVE first_occurrences(_)
first_occurrences(seq) ==
    IF seq = <<>> THEN <<>>
    ELSE LET front == first_occurrences(SubSeq(seq, 1, Len(seq) - 1))
             last  == seq[Len(seq)]
         IN  IF \E k \in DOMAIN front : front[k] = last THEN front
             ELSE Append(front, last)
player_stats_keys(data, order, current_gw) ==
    first_occurrences(touched_in_order(data, order, current_gw))

\* lines 198-204: one row per key of player_stats in the order of the keys; the
\* left merge keeps that order, dropna removes the players without a name
df_stats_rows(data, order, names, current_gw) ==
    LET keys == player_stats_keys(data, order, current_gw)
        named == {k \in DOMAIN keys : keys[k] \in names}
        nth(i) == CHOOSE k \in named : Cardinality({j \in named : j < k}) = i - 1
    IN  [i \in 1..Cardinality(named) |-> keys[nth(i)]]

\* lines 207-218: df_stats[count > 0].sort_values(by=count, ascending=False)
\* .head(10).  The argsort sees the counts alone, so the place of a row among
\* rows of equal count is decided by its position: the model takes the two
\* position orders, the one of the rows and its reverse
top_table(count, rows) ==
    LET listed == {k \in DOMAIN rows : count[rows[k]] > 0}
        Before(j, k) ==
            \/ count[rows[j]] > count[rows[k]]
            \/ /\ count[rows[j]] = count[rows[k]]
               /\ IF equalKeysKeepOrder THEN j < k ELSE j > k
        nth(i) == CHOOSE k \in listed : Cardinality({j \in listed : Before(j, k)}) = i - 1
        size == IF Cardinality(listed) < TopTableSize
                THEN Cardinality(listed) ELSE TopTableSize
    IN  [i \in 1..size |-> [player |-> rows[nth(i)], count |-> count[rows[nth(i)]]]]

\* the conversion of the statistics to tables (lines 191-219)
results_of(data, order, names, current_gw) ==
    LET Cap(p) == captain_count_of(data, p)
        In(p)  == transfer_in_count_of(data, p, current_gw)
        Out(p) == transfer_out_count_of(data, p, current_gw)
        Tc(p)  == triple_captain_count_of(data, p)
        Mp(p)  == manager_pick_count_of(data, p)
        rows   == df_stats_rows(data, order, names, current_gw)
        keys   == {rows[k] : k \in DOMAIN rows}
        no_stats ==
            /\ \A s \in PickSlots(data) : FALSE
            /\ \A s \in TransferSlots(data) :
                   data[s[1]].results.transfers[s[2]].event # current_gw
    IN  IF no_stats THEN [EmptyResults EXCEPT !.chip_counts = chip_counts_of(data)]
        ELSE [kind |-> "stats", chip_counts |-> chip_counts_of(data),
              captains |-> top_table([p \in keys |-> Cap(p)], rows),
              transfers_in |-> top_table([p \in keys |-> In(p)], rows),
              transfers_out |-> top_table([p \in keys |-> Out(p)], rows),
              manager_picks |-> TableOf(Mp, names),
              triple_captains |-> TableOf(Tc, names)]

\* lines 83-103: the two early returns, before any manager is fetched
TBegin ==
    /\ tPc = "start"
    /\ tRequests' = IF actual_n <= 0 THEN tRequests
                     ELSE tRequests \cup {[endpoint |-> "bootstrap-static", entry |-> 0]}
    /\ IF actual_n <= 0 \/ load_player_data = {}
       THEN /\ tPc' = "returned"
            /\ tOut' = EmptyResults
            /\ UNCHANGED <<tFutState, tFutOutcome>>
       ELSE /\ tPc' = "submit"
            /\ tFutState' = [k \in 1..actual_n |-> "unsubmitted"]
            /\ tFutOutcome' = [k \in 1..actual_n |-> NoRecord]
            /\ UNCHANGED tOut
    /\ UNCHANGED <<tDf, top_n, tQueue,
                   manager_data, tOrder, apiVars, notTop>>

\* executor.submit(fetch_data_for_manager, manager_id, current_gw, _session)
TSubmit ==
    /\ tPc = "submit"
    /\ LET k == Cardinality({j \in TFutures : tFutState[j] # "unsubmitted"}) + 1
       IN  /\ tFutState' = [tFutState EXCEPT ![k] = "pending"]
           /\ tQueue' = Append(tQueue, k)
           /\ tPc' = IF k = actual_n THEN "collect" ELSE "submit"
    /\ UNCHANGED <<tDf, top_n, tFutOutcome,
                   manager_data, tOut, tRequests, tOrder, apiVars, notTop>>

TStartTask ==
    /\ tQueue # <<>>
    /\ PoolHasIdleWorker(TRunning, MaxWorkers)
    /\ tFutState' = [tFutState EXCEPT ![Head(tQueue)] = "running"]
    /\ tQueue' = Tail(tQueue)
    /\ UNCHANGED <<tPc, tDf, top_n, tFutOutcome,
                   manager_data, tOut, tRequests, tOrder, apiVars, notTop>>

TFinishTask(k) ==
    /\ tFutState[k] = "running"
    /\ tFutOutcome' = [tFutOutcome EXCEPT ![k] = fetch_data_for_manager(manager_ids[k], GW)]
    /\ tRequests' = tRequests \cup task_requests(manager_ids[k])
    /\ tFutState' = [tFutState EXCEPT ![k] = "finished"]
    /\ UNCHANGED <<tPc, tDf, top_n, tQueue,
                   manager_data, tOut, tOrder, apiVars, notTop>>

\* `manager_id, results = future.result()` in the as_completed loop: an exception of
\* the task is raised again here, in the caller, inside the `with` block
TCollect(k) ==
    /\ tPc = "collect"
    /\ tFutState[k] = "finished"
    /\ tFutState' = [tFutState EXCEPT ![k] = "yielded"]
    /\ IF tFutOutcome[k].tag = "raise"
       THEN /\ tPc' = "unwinding"
            /\ UNCHANGED <<manager_data, tOrder>>
       ELSE /\ manager_data' =
                  IF Stored(tFutOutcome[k].results)
                  THEN [manager_data EXCEPT ![manager_ids[k]] =
                            [tag |-> "stored", results |-> tFutOutcome[k].results]]
                  ELSE manager_data
            /\ tOrder' =
                  IF Stored(tFutOutcome[k].results)
                  THEN Append(tOrder, manager_ids[k]) ELSE tOrder
            /\ tPc' = IF \A j \in TFutures \ {k} : tFutState[j] = "yielded"
                      THEN "aggregate" ELSE "collect"
    /\ UNCHANGED <<tDf, top_n, tFutOutcome,
                   tQueue, tOut, tRequests, apiVars, notTop>>

\* the exception leaves the `with` block: the executor waits for the tasks still
\* queued or running, then the exception leaves analyze_top_n_managers
TUnwind ==
    /\ tPc = "unwinding"
    /\ \A j \in TFutures : tFutState[j] \in {"finished", "yielded"}
    /\ tPc' = "raised"
    /\ UNCHANGED <<tDf, top_n, tFutState,
                   tFutOutcome, tQueue, manager_data, tOut, tRequests, tOrder, apiVars, notTop>>

TAggregate ==
    /\ tPc = "aggregate"
    /\ tOut' = results_of(manager_data, tOrder, load_player_data, GW)
    /\ tPc' = "returned"
    /\ UNCHANGED <<tDf, top_n, tFutState,
                   tFutOutcome, tQueue, manager_data, tRequests, tOrder, apiVars, notTop>>

\* the answers of the two endpoints for one manager in these runs
TopPicksOk(m) ==
    [status |-> "ok", points |-> 20, event_transfers_cost |-> 0, active_chip |-> "3xc",
     picks |-> <<[element |-> (m % 2) + 1, position |-> 1, is_captain |-> TRUE]>>]
TopTransfersOk(m) ==
    [status |-> "ok", body |-> <<[event |-> GW, element_in |-> 2, element_out |-> 1]>>]
TopAnswers(m) ==
    {<<TopPicksOk(m), TopTransfersOk(m)>>,
     <<TopPicksOk(m), [status |-> "non200", body |-> <<>>]>>,
     <<TopPicksOk(m), [status |-> "reqerr", body |-> <<>>]>>,
     <<NoPicksBody("non200"), TopTransfersOk(m)>>,
     <<NoPicksBody("reqerr"), TopTransfersOk(m)>>,
     <<NoPicksBody("badjson"), TopTransfersOk(m)>>}

\* the chips and the picks of the runs about the chip statistics: "assistant"
\* is no key of chip_counts
TopChips == ChipNames \cup {None, "assistant"}
TopPick  == [element : Players, position : {1, 16}, is_captain : BOOLEAN]

\* the runs about the cut of the tables: manager 1 brings in the first players
\* of ManyPlayers and manager 2 the others, each in exchange for player m; the
\* players of `twice` are brought in by both, the transfers of the players of
\* `old` were made in the gameweek before
ManyPlayers == 1..(TopTableSize + 1)
ManyTransfers(m, twice, old) ==
    LET mine   == {p \in ManyPlayers : (p <= TopTableSize \div 2) <=> (m = 1)}
        bought == mine \cup twice
        TransferOf(p) == [event |-> IF p \in old THEN GW - 1 ELSE GW,
                          element_in |-> p, element_out |-> m]
        nth(i) == CHOOSE p \in bought : Cardinality({q \in bought : q < p}) = i - 1
    IN  [status |-> "ok", body |-> [i \in 1..Cardinality(bought) |-> TransferOf(nth(i))]]

InitTop ==
    /\ \E n \in 0..MaxRows :
         /\ tDf \in [1..n -> [entry : Managers, rank : 1..MaxRows]]
         /\ \A i \in 1..n : tDf[i].entry = i
         /\ top_n \in -1..MaxRows
    /\ \/ \* the fetches of the managers fail in every combination
          /\ \A i \in TIndex : tDf[i].rank = i
          /\ top_n = Len(tDf)
          /\ \E ans \in [Managers -> UNION {TopAnswers(m) : m \in Managers}] :
                /\ \A m \in Managers : ans[m] \in TopAnswers(m)
                /\ \A m \in Managers : m > Len(tDf) => ans[m] = <<TopPicksOk(m), TopTransfersOk(m)>>
                /\ picksResp = [m \in Managers |-> ans[m][1]]
                /\ transfersResp = [m \in Managers |-> ans[m][2]]
          /\ jsonErrorIsRequestException \in BOOLEAN
          /\ equalKeysKeepOrder = TRUE
          /\ bootstrapResp = [status |-> "ok", ids |-> Players]
       \/ \* every fetch succeeds; the table, top_n and the player table vary
          /\ picksResp = [m \in Managers |-> TopPicksOk(m)]
          /\ transfersResp = [m \in Managers |-> TopTransfersOk(m)]
          /\ jsonErrorIsRequestException = TRUE
          /\ equalKeysKeepOrder = TRUE
          /\ bootstrapResp \in {[status |-> "ok", ids |-> Players],
                                 [status |-> "ok", ids |-> {1}],
                                 [status |-> "non200", ids |-> {}],
                                 [status |-> "reqerr", ids |-> {}]}
       \/ \* two managers; the chip and the picks of the first vary
          /\ Len(tDf) = 2 /\ top_n = 2
          /\ \A i \in TIndex : tDf[i].rank = i
          /\ \E chip \in TopChips, picks \in SeqsUpTo(TopPick, MaxPicks) :
                picksResp = [m \in Managers |->
                               IF m = 1 THEN [TopPicksOk(m) EXCEPT !.active_chip = chip,
                                                                   !.picks = picks]
                               ELSE TopPicksOk(m)]
          /\ transfersResp = [m \in Managers |-> TopTransfersOk(m)]
          /\ jsonErrorIsRequestException = TRUE
          /\ equalKeysKeepOrder = TRUE
          /\ bootstrapResp \in {[status |-> "ok", ids |-> Players],
                                 [status |-> "ok", ids |-> {1}]}
       \/ \* two managers bring in the players of ManyPlayers, one or two times
          \* each; some of the transfers are of the gameweek before
          /\ Len(tDf) = 2 /\ top_n = 2
          /\ \A i \in TIndex : tDf[i].rank = i
          /\ picksResp = [m \in Managers |-> TopPicksOk(m)]
          /\ \E twice \in SUBSET {1, TopTableSize + 1}, old \in SUBSET {2, 3} :
                transfersResp = [m \in Managers |-> ManyTransfers(m, twice, old)]
          /\ jsonErrorIsRequestException = TRUE
          /\ equalKeysKeepOrder \in BOOLEAN
          /\ bootstrapResp \in {[status |-> "ok", ids |-> ManyPlayers],
                                 [status |-> "ok", ids |-> ManyPlayers \ {3}]}
    /\ summaryResp = BaseSummary
    /\ HistoryUnused /\ EntryUnused
    /\ tPc = "start"
    /\ tFutState = <<>>
    /\ tFutOutcome = <<>>
    /\ tQueue = <<>>
    /\ manager_data = [m \in Managers |-> NotStored]
    /\ tOut = NoRecord
    /\ tRequests = {}
    /\ tOrder = <<>>
    /\ OnlyTop

NextTop ==
    \/ TBegin
    \/ TSubmit
    \/ TStartTask
    \/ \E k \in TFutures : TFinishTask(k)
    \/ \E k \in TFutures : TCollect(k)
    \/ TUnwind
    \/ TAggregate
SpecTop == InitTop /\ [][NextTop]_vars

TaskFails(m) ==
    \/ picksResp[m].status # "ok"
    \/ transfersResp[m].status # "ok"
TopManagers == {manager_ids[k] : k \in 1..actual_n}

\* C3: a fetch task that fails for one manager (request error, non-200 status or
\* any exception raised inside the task) never aborts analyze_top_n_managers: the
\* call returns.
C3_FailedFetchDoesNotAbort ==
    (\E m \in TopManagers : TaskFails(m)) => tPc # "raised"

\* the managers whose picks URL was requested, and what the call stored for them
Fetched == {r.entry : r \in {q \in tRequests : q.endpoint = "picks"}}
SmallestRank(S) ==
    \A i, j \in TIndex :
        (tDf[i].entry \in S /\ tDf[j].entry \notin S) => tDf[i].rank <= tDf[j].rank
DataOf(S) ==
    [m \in Managers |->
        IF m \in S /\ fetch_data_for_manager(m, GW).tag = "ok"
                   /\ Stored(fetch_data_for_manager(m, GW).results)
        THEN [tag |-> "stored", results |-> fetch_data_for_manager(m, GW).results]
        ELSE NotStored]

\* C13: analyze_top_n_managers requests and stores data only for min(top_n, rows)
\* managers of smallest rank in its table, the returned statistics are those of
\* exactly these managers, and when min(top_n, rows) <= 0 it returns the empty
\* results with no request sent.
C13_OnlyTopManagers ==
    /\ actual_n <= 0 =>
          /\ tRequests = {}
          /\ tPc \in {"start", "returned"}
          /\ tPc = "returned" => tOut = EmptyResults
    /\ \A r \in tRequests : r.endpoint = "bootstrap-static" \/ r.entry \in Fetched
    /\ \E S \in SUBSET {tDf[i].entry : i \in TIndex} :
          /\ Cardinality(S) = (IF actual_n <= 0 THEN 0 ELSE actual_n)
          /\ SmallestRank(S)
          /\ Fetched \subseteq S
          /\ \A m \in Managers : manager_data[m].tag = "stored" => m \in S
          /\ tPc = "aggregate" => Fetched = S
          /\ (tPc = "returned" /\ Fetched # {}) =>
                 /\ Fetched = S
                 /\ tOut = results_of(DataOf(S), tOrder, load_player_data, GW)
C13_Witness ==
    /\ tPc = "returned"
    /\ tOut.kind = "stats"
    /\ Len(tDf) = 3 /\ actual_n = 2
    /\ tDf[1].rank > tDf[2].rank /\ tDf[2].rank > tDf[3].rank
    /\ Fetched = {2, 3}
    /\ manager_data[1].tag = "absent" /\ manager_data[2].tag = "stored"

\* the managers whose picks were fetched and stored, and the total of a table
FetchedPicks ==
    {m \in Managers : manager_data[m].tag = "stored" /\ manager_data[m].results.has_picks}
RECURSIVE SumOver(_, _)
SumOver(f, S) ==
    IF S = {} THEN 0
    ELSE LET x == CHOOSE y \in S : TRUE IN f[x] + SumOver(f, S \ {x})
TotalOf(f) == SumOver(f, DOMAIN f)

\* C23: in the results of analyze_top_n_managers, chip_counts[c] is the number of
\* managers with fetched picks whose active chip is c, so a manager adds at most 1
\* in total and an unknown chip adds nothing; the sum of chip_counts is at most the
\* number of managers with fetched picks; the triple-captain picks total at most
\* chip_counts["3xc"] and the manager-chip picks at most chip_counts["manager"].
C23_ChipCounts ==
    tPc = "returned" =>
        /\ \A c \in ChipNames :
              tOut.chip_counts[c] =
                  Cardinality({m \in FetchedPicks : picksResp[m].active_chip = c})
        /\ TotalOf(tOut.chip_counts) =
              Cardinality({m \in FetchedPicks : picksResp[m].active_chip \in ChipNames})
        /\ TotalOf(tOut.chip_counts) <= Cardinality(FetchedPicks)
        /\ TotalOf(tOut.triple_captains) <= tOut.chip_counts["3xc"]
        /\ TotalOf(tOut.manager_picks) <= tOut.chip_counts["manager"]
\* manager 1 played an unknown chip, manager 2 the triple captain: one chip is
\* counted for two managers with fetched picks
C23_Witness ==
    /\ tPc = "returned" /\ tOut.kind = "stats"
    /\ FetchedPicks = {1, 2}
    /\ picksResp[1].active_chip = "assistant" /\ Len(picksResp[1].picks) = 2
    /\ TotalOf(tOut.chip_counts) = 1
    /\ tOut.chip_counts["3xc"] = 1 /\ TotalOf(tOut.triple_captains) = 1
\* a manager on 3xc with two picks flagged captain: one triple-captain pick
C23_TwoCaptainsReached ==
    /\ tPc = "returned" /\ tOut.kind = "stats"
    /\ picksResp[1].active_chip = "3xc" /\ Len(picksResp[1].picks) = 2
    /\ picksResp[1].picks[1].is_captain /\ picksResp[1].picks[2].is_captain
    /\ tOut.chip_counts["3xc"] = 2 /\ TotalOf(tOut.triple_captains) = 2
\* a manager on the manager chip with two picks at position 16
C23_ManagerChipReached ==
    /\ tPc = "returned" /\ tOut.kind = "stats"
    /\ picksResp[1].active_chip = "manager" /\ Len(picksResp[1].picks) = 2
    /\ picksResp[1].picks[1].position = 16 /\ picksResp[1].picks[2].position = 16
    /\ tOut.chip_counts["manager"] = 1 /\ TotalOf(tOut.manager_picks) = 1

\* the transfers of the current gameweek among the stored transfer lists
CountedTransfers ==
    {s \in TransferSlots(manager_data) :
        manager_data[s[1]].results.transfers[s[2]].event = GW}
TransferAt(s) == manager_data[s[1]].results.transfers[s[2]]
Listed(table) == {table[i].player : i \in DOMAIN table}
TopTables == {tOut.captains, tOut.transfers_in, tOut.transfers_out}

\* C24: a transfer is counted only when its event is current_gw, one for its
\* element_in in transfer_in_count and one for its element_out in
\* transfer_out_count; the captain, transfers-in and transfers-out tables hold
\* at most 10 players each, every count above 0, in non-increasing order of
\* count.
C24_TransferTables ==
    (tPc = "returned" /\ tOut.kind = "stats") =>
        /\ \A table \in TopTables :
              /\ Len(table) <= TopTableSize
              /\ \A i \in DOMAIN table : table[i].count > 0
              /\ \A i, j \in DOMAIN table : i < j => table[i].count >= table[j].count
              /\ \A i, j \in DOMAIN table : table[i].player = table[j].player => i = j
        /\ \A i \in DOMAIN tOut.transfers_in :
              tOut.transfers_in[i].count =
                  Cardinality({s \in CountedTransfers :
                                  TransferAt(s).element_in = tOut.transfers_in[i].player})
        /\ \A i \in DOMAIN tOut.transfers_out :
              tOut.transfers_out[i].count =
                  Cardinality({s \in CountedTransfers :
                                  TransferAt(s).element_out = tOut.transfers_out[i].player})
        /\ \A s \in CountedTransfers :
              /\ TransferAt(s).element_in \in load_player_data
                    => \/ TransferAt(s).element_in \in Listed(tOut.transfers_in)
                       \/ Len(tOut.transfers_in) = TopTableSize
              /\ TransferAt(s).element_out \in load_player_data
                    => \/ TransferAt(s).element_out \in Listed(tOut.transfers_out)
                       \/ Len(tOut.transfers_out) = TopTableSize
\* a full transfers-in table led by a player brought in twice, while a player
\* brought in the gameweek before is stored and not listed
C24_Witness ==
    /\ tPc = "returned" /\ tOut.kind = "stats"
    /\ Len(tOut.transfers_in) = TopTableSize
    /\ tOut.transfers_in[1].count = 2
    /\ tOut.transfers_in[TopTableSize].count = 1
    /\ \E s \in TransferSlots(manager_data) :
          /\ TransferAt(s).event # GW
          /\ TransferAt(s).element_in \in load_player_data
          /\ TransferAt(s).element_in \notin Listed(tOut.transfers_in)
    /\ Len(tOut.transfers_out) = 2 /\ Len(tOut.captains) = 2
\* more than 10 players were brought in this gameweek: one of them is cut
C24_CutReached ==
    /\ tPc = "returned" /\ tOut.kind = "stats"
    /\ Len(tOut.transfers_in) = TopTableSize
    /\ \E s \in CountedTransfers :
          /\ TransferAt(s).element_in \in load_player_data
          /\ TransferAt(s).element_in \notin Listed(tOut.transfers_in)

\* the stored managers in the order their tasks were submitted
SubmissionOrder ==
    LET stored == {k \in DOMAIN manager_ids : manager_data[manager_ids[k]].tag = "stored"}
        nth(i) == CHOOSE k \in stored : Cardinality({j \in stored : j < k}) = i - 1
    IN  [i \in 1..Cardinality(stored) |-> manager_ids[nth(i)]]
RowsOf(table) == {table[i] : i \in DOMAIN table}
SamePlayersAndCounts(a, b) ==
    /\ a.chip_counts = b.chip_counts
    /\ RowsOf(a.captains) = RowsOf(b.captains)
    /\ RowsOf(a.transfers_in) = RowsOf(b.transfers_in)
    /\ RowsOf(a.transfers_out) = RowsOf(b.transfers_out)

\* C25: the results do not depend on the order in which the fetch tasks
\* complete: with the same API answers every completion order gives the chip
\* counts and the players and counts of the captain, transfers-in and
\* transfers-out tables that the order of submission gives, also when several
\* players tie at the 10th place.
C25_CompletionOrderIrrelevant ==
    (tPc = "returned" /\ tOut.kind = "stats") =>
        SamePlayersAndCounts(tOut,
            results_of(manager_data, SubmissionOrder, load_player_data, GW))
\* what does hold: the chip counts, and the tables that are not full
C25_SameUnlessCut ==
    (tPc = "returned" /\ tOut.kind = "stats") =>
        LET ref == results_of(manager_data, SubmissionOrder, load_player_data, GW)
        IN  /\ tOut.chip_counts = ref.chip_counts
            /\ Len(tOut.captains) < TopTableSize => RowsOf(tOut.captains) = RowsOf(ref.captains)
            /\ Len(tOut.transfers_in) < TopTableSize
                  => RowsOf(tOut.transfers_in) = RowsOf(ref.transfers_in)
            /\ Len(tOut.transfers_out) < TopTableSize
                  => RowsOf(tOut.transfers_out) = RowsOf(ref.transfers_out)
\* manager 2 was stored before manager 1 and every player brought in has count 1
C25_TieReached ==
    /\ tPc = "returned" /\ tOut.kind = "stats"
    /\ tOrder = <<2, 1>>
    /\ Len(tOut.transfers_in) = TopTableSize
    /\ tOut.transfers_in[1].count = 1
    /\ Cardinality({TransferAt(s).element_in : s \in CountedTransfers}
                    \cap load_player_data) > TopTableSize

\* the managers whose task fetched the picks and whose transfers request
\* failed in one of the given ways
PicksButNoTransfers(ways) ==
    {m \in {manager_ids[k] : k \in DOMAIN tFutState} :
        picksResp[m].status = "ok" /\ transfersResp[m].status \in ways}
CaptainsOf(m) ==
    {picksResp[m].picks[k].element :
        k \in {j \in DOMAIN picksResp[m].picks : picksResp[m].picks[j].is_captain}}
CountIn(table, player) ==
    IF \E i \in DOMAIN table : table[i].player = player
    THEN (CHOOSE r \in RowsOf(table) : r.player = player).count ELSE 0
PicksCounted(ways) ==
    (tPc = "returned" /\ tFutState # <<>>) =>
        /\ \A c \in ChipNames :
              tOut.chip_counts[c] >=
                  Cardinality({m \in PicksButNoTransfers(ways) : picksResp[m].active_chip = c})
        /\ \A p \in load_player_data :
              CountIn(tOut.captains, p) >=
                  Cardinality({m \in PicksButNoTransfers(ways) : p \in CaptainsOf(m)})

\* C26: the fetched picks of a manager are counted in the captain and chip
\* statistics also when the transfers request of that manager fails, with a
\* non-200 status or with a request error.
C26_PicksCountedWithoutTransfers == PicksCounted({"non200", "reqerr"})
\* what does hold: the picks are counted when the transfers answer is non-200
C26_CountedAfterNon200 == PicksCounted({"non200"})
\* a manager's picks were fetched, the transfers request raised, and the call
\* returned with that manager left out of manager_data
C26_DroppedReached ==
    /\ tPc = "returned"
    /\ \E m \in PicksButNoTransfers({"reqerr"}) : manager_data[m].tag = "absent"
\* a manager's picks are stored without transfers after a non-200 answer
C26_Non200Reached ==
    /\ tPc = "returned"
    /\ \E m \in PicksButNoTransfers({"non200"}) :
          /\ manager_data[m].tag = "stored" /\ ~manager_data[m].results.has_transfers
          /\ tOut.chip_counts["3xc"] >= 1

\* the records get_multi_gw_manager_data has returned so far
ReturnedRecords == {i \in MIndex : /\ mFutState[i] \in {"finished", "yielded"}
                                   /\ mFutOutcome[i].tag = "dict"}

\* C27: every record returned by get_multi_gw_manager_data has net_points =
\* transfer_adjusted_points = gw_points - transfer_cost and chip_effect = 0,
\* where gw_points and transfer_cost are the sums over the gameweeks of
\* start_gw..end_gw found in the manager's history; when the history request
\* failed the sums are those of the per-gameweek picks requests, and
\* captain_points = 0, points_on_bench = 0 and chips_used is null.
C27_MultiGwIdentity ==
    \A i \in ReturnedRecords :
        LET r == mFutOutcome[i]
            h == historyResp[mDf[i].manager_id]
            p == picksResp[mDf[i].manager_id]
            Range  == start_gw..end_gw
            InHist == {g \in Range : HasEvent(h.current, g)}
            points == IF h.status = "ok"
                      THEN SumOver([g \in InHist |-> EventRecord(h.current, g).points], InHist)
                      ELSE IF p.status = "ok" THEN Cardinality(Range) * p.points ELSE 0
            cost   == IF h.status = "ok"
                      THEN SumOver([g \in InHist |->
                                      EventRecord(h.current, g).event_transfers_cost], InHist)
                      ELSE IF p.status = "ok"
                           THEN Cardinality(Range) * p.event_transfers_cost ELSE 0
        IN  /\ r.gw_points = points
            /\ r.transfer_cost = cost
            /\ r.net_points = points - cost
            /\ r.transfer_adjusted_points = points - cost
            /\ r.chip_effect = 0
            /\ h.status # "ok" =>
                  r.captain_points = 0 /\ r.points_on_bench = 0 /\ r.chips_used = <<>>
\* a record over the current gameweek alone, of a history that also holds the
\* gameweek before
C27_Witness ==
    /\ start_gw = GW /\ end_gw = GW
    /\ \E i \in ReturnedRecords :
          /\ historyResp[mDf[i].manager_id] = MultiHistoryOk(mDf[i].manager_id)
          /\ mFutOutcome[i].gw_points = 40 + mDf[i].manager_id
          /\ mFutOutcome[i].transfer_cost = 4
          /\ mFutOutcome[i].net_points = 36 + mDf[i].manager_id
\* a record over two gameweeks of a history that holds one of them
C27_MissingGameweekReached ==
    /\ start_gw = GW - 1 /\ end_gw = GW
    /\ \E i \in ReturnedRecords :
          /\ historyResp[mDf[i].manager_id] = MultiHistoryOld(mDf[i].manager_id)
          /\ mFutOutcome[i].net_points = 26 + mDf[i].manager_id
\* a record summed from the picks of two gameweeks after the history failed
C27_FallbackReached ==
    /\ start_gw = GW - 1 /\ end_gw = GW
    /\ \E i \in ReturnedRecords :
          /\ historyResp[mDf[i].manager_id].status # "ok"
          /\ picksResp[mDf[i].manager_id].status = "ok"
          /\ mFutOutcome[i].gw_points = 2 * (20 + mDf[i].manager_id)
          /\ mFutOutcome[i].transfer_cost = 8
          /\ mFutOutcome[i].captain_points = 0

(***************************************************************************)
(* utils/fpl_api.py: the per-manager detail fetchers                       *)
(***************************************************************************)
NA     == -1                             \* None / pd.NA in a numeric column
NoGw   == [event |-> 0, overall_rank |-> NA, event_transfers_cost |-> 0]   \* None
NoPct  == [num |-> 0, den |-> 0]         \* None; otherwise the value is 100 * num / den

\* the last record of `current` whose event is ev (the loop keeps overwriting)
RECURSIVE LastEvent(_, _)
LastEvent(current, ev) ==
    IF current = <<>> THEN NoGw
    ELSE IF current[Len(current)].event = ev THEN current[Len(current)]
    ELSE LastEvent(SubSeq(current, 1, Len(current) - 1), ev)

\* get_bootstrap_static: player id -> name, {} when the request failed; a name is
\* modelled by the id it names
get_bootstrap_static == IF bootstrapResp.status = "ok" THEN bootstrapResp.ids ELSE {}

\* the element of the last pick with the flag set, 0 (None) when there is none
RECURSIVE LastFlagged(_, _)
LastFlagged(picks, vice) ==
    IF picks = <<>> THEN 0
    ELSE LET p == picks[Len(picks)]
         IN  IF (IF vice THEN p.is_vice_captain ELSE p.is_captain) THEN p.element
             ELSE LastFlagged(SubSeq(picks, 1, Len(picks) - 1), vice)

NameOf(id, players_dict) == IF id # 0 /\ id \in players_dict THEN id ELSE NA

\* get_manager_history(entry, current_gw) of fpl_api.py:
\* [tag |-> "None"], [tag |-> "raise"] or the dict it returns
fpl_api_get_manager_history(entry, current_gw) ==
    LET h == historyResp[entry]
        p == picksResp[entry]
        current_gw_data == LastEvent(h.current, current_gw)
        prev_gw_data    == LastEvent(h.current, current_gw - 1)
        picks_read      == current_gw_data # NoGw /\ p.status = "ok"
        captain_id      == IF picks_read THEN LastFlagged(p.picks, FALSE) ELSE 0
        vice_captain_id == IF picks_read THEN LastFlagged(p.picks, TRUE) ELSE 0
        players_dict    == get_bootstrap_static
        failed(t)       == [tag |-> t, current |-> NoGw, previous |-> NoGw,
                            chip_used |-> None, transfer_cost |-> 0, captain_id |-> 0,
                            vice_captain_id |-> 0, captain_name |-> NA,
                            vice_captain_name |-> NA, points_on_bench |-> 0]
    IN  IF h.status = "reqerr" THEN failed("None")
        ELSE IF h.status = "non200" THEN failed("None")
        ELSE IF h.status = "badjson"
             THEN (IF JsonErrorEscapes(jsonErrorIsRequestException)
                   THEN failed("raise") ELSE failed("None"))
        ELSE [tag |-> "dict",
              current |-> current_gw_data,
              previous |-> prev_gw_data,
              chip_used |-> IF picks_read THEN p.active_chip ELSE None,
              transfer_cost |-> IF current_gw_data # NoGw
                                THEN current_gw_data.event_transfers_cost ELSE 0,
              captain_id |-> captain_id,
              vice_captain_id |-> vice_captain_id,
              captain_name |-> NameOf(captain_id, players_dict),
              vice_captain_name |-> NameOf(vice_captain_id, players_dict),
              points_on_bench |-> IF picks_read THEN p.points_on_bench ELSE 0]

\* a get_manager_history that asked for the picks whatever the history answered
RequestsPicksAlways(entry, current_gw) == <<"history", "picks">>
\* the endpoints one call of get_manager_history asks, in order: the picks only
\* under `if current_gw_data:` (line 291), get_bootstrap_static (cached) only
\* when the picks name a captain or a vice captain
history_requests(entry, current_gw) ==
    LET h == historyResp[entry]
        p == picksResp[entry]
        found == h.status = "ok" /\ LastEvent(h.current, current_gw) # NoGw
        named == /\ p.status = "ok"
                 /\ (LastFlagged(p.picks, FALSE) # 0 \/ LastFlagged(p.picks, TRUE) # 0)
    IN  <<"history">> \o (IF found THEN <<"picks">> ELSE <<>>)
                     \o (IF found /\ named THEN <<"bootstrap-static">> ELSE <<>>)

\* get_overall_rank(entry): [tag |-> "rank", rank |-> r], "None" or "raise"
get_overall_rank(entry) ==
    LET e == entryResp[entry]
    IN  IF e.status = "ok"
        THEN (IF e.summary_overall_rank = NA THEN [tag |-> "None", rank |-> NA]
              ELSE [tag |-> "rank", rank |-> e.summary_overall_rank])
        ELSE IF e.status = "badjson" /\ JsonErrorEscapes(jsonErrorIsRequestException)
             THEN [tag |-> "raise", rank |-> NA]
        ELSE [tag |-> "None", rank |-> NA]

\* get_manager_basic_data(entry_id): every failure gives the zero record
get_manager_basic_data(entry_id) ==
    LET e == entryResp[entry_id]
    IN  IF e.status = "ok"
        THEN [summary_overall_points |-> e.summary_overall_points,
              summary_event_points |-> e.summary_event_points]
        ELSE [summary_overall_points |-> 0, summary_event_points |-> 0]

\* the task process_page_data submits for one entry, and what the collection loop
\* leaves in manager_data for it: the dict, the rank, or nothing (None)
NoInfo == [tag |-> "None"]
page_task(entry_id, current_gw) ==
    IF current_gw # 0 THEN fpl_api_get_manager_history(entry_id, current_gw)
    ELSE get_overall_rank(entry_id)
manager_info_of(outcome) ==
    IF outcome.tag = "dict" THEN outcome
    ELSE IF outcome.tag = "rank" /\ outcome.rank # 0 THEN outcome
    ELSE NoInfo

\* lines 168-252: the row built for one standings entry
\* line 174: rank_change, None when last_rank is 0
rank_change_of(last_rank, current_rank) ==
    IF last_rank = 0 THEN [known |-> FALSE, value |-> NA]
    ELSE [known |-> TRUE, value |-> last_rank - current_rank]
\* the percentage computed without the test of line 178
PctUnguarded(last_rank, current_rank) ==
    [num |-> last_rank - current_rank, den |-> last_rank]
\* lines 177-179: pct_rank_change, None unless last_rank > 0
pct_rank_change_of(last_rank, current_rank) ==
    IF last_rank > 0 THEN [num |-> last_rank - current_rank, den |-> last_rank]
    ELSE NoPct

\* a computation that took a missing previous rank for 0
ChangesFromCurrentOnly(has_history, overall_rank, prev_overall_rank) ==
    LET prev == IF prev_overall_rank = NA THEN 0 ELSE prev_overall_rank
    IN  [known  |-> has_history /\ overall_rank # NA,
         change |-> IF has_history /\ overall_rank # NA THEN prev - overall_rank ELSE 0,
         pct    |-> IF has_history /\ overall_rank # NA /\ prev > 0
                    THEN [num |-> prev - overall_rank, den |-> prev] ELSE NoPct]
\* lines 204-209: the overall rank change and its percentage, inside the branch
\* of a history dict
overall_rank_changes(has_history, overall_rank, prev_overall_rank) ==
    LET both == has_history /\ overall_rank # NA /\ prev_overall_rank # NA
    IN  [known  |-> both,
         change |-> IF both THEN prev_overall_rank - overall_rank ELSE 0,
         pct    |-> IF both /\ prev_overall_rank > 0
                    THEN [num |-> prev_overall_rank - overall_rank,
                          den |-> prev_overall_rank]
                    ELSE NoPct]

player_data(player, manager_info) ==
    LET last_rank    == player.last_rank
        current_rank == player.rank
        has_history  == manager_info.tag = "dict"
        overall_rank ==
            IF has_history
            THEN (IF manager_info.current # NoGw THEN manager_info.current.overall_rank ELSE NA)
            ELSE IF manager_info.tag = "rank" THEN manager_info.rank
            ELSE NA
        prev_overall_rank ==
            IF has_history /\ manager_info.previous # NoGw
            THEN manager_info.previous.overall_rank ELSE NA
        changes == overall_rank_changes(has_history, overall_rank, prev_overall_rank)
    IN  [manager_id |-> player.entry,
         rank |-> current_rank,
         last_rank |-> last_rank,
         rank_change |-> rank_change_of(last_rank, current_rank).value,
         rank_change_known |-> rank_change_of(last_rank, current_rank).known,
         pct_rank_change |-> pct_rank_change_of(last_rank, current_rank),
         total |-> player.total,
         gw_points |-> player.event_total,
         overall_rank |-> overall_rank,
         chip_used |-> IF has_history THEN manager_info.chip_used ELSE None,
         transfer_penalty |-> IF has_history THEN manager_info.transfer_cost ELSE 0,
         captain_name |-> IF has_history THEN manager_info.captain_name ELSE NA,
         vice_captain_name |-> IF has_history THEN manager_info.vice_captain_name ELSE NA,
         points_on_bench |-> IF has_history THEN manager_info.points_on_bench ELSE 0,
         prev_overall_rank |-> prev_overall_rank,
         overall_rank_change_known |-> changes.known,
         overall_rank_change |-> changes.change,
         overall_rank_change_pct |-> changes.pct]

\* lines 512-566: the row built for one new entry
new_entry_data(entry_id, manager_data_, manager_history, current_gw) ==
    LET has_history == current_gw # 0 /\ manager_history.tag = "dict"
    IN  [manager_id |-> entry_id,
         rank |-> NA,
         last_rank |-> 0,
         rank_change |-> NA,
         rank_change_known |-> FALSE,
         pct_rank_change |-> NoPct,
         total |-> manager_data_.summary_overall_points,
         gw_points |-> manager_data_.summary_event_points,
         overall_rank |-> IF has_history /\ manager_history.current # NoGw
                          THEN manager_history.current.overall_rank ELSE NA,
         chip_used |-> IF has_history THEN manager_history.chip_used ELSE None,
         transfer_penalty |-> IF has_history THEN manager_history.transfer_cost ELSE 0,
         captain_name |-> IF has_history THEN manager_history.captain_name ELSE NA,
         vice_captain_name |-> IF has_history THEN manager_history.vice_captain_name ELSE NA,
         points_on_bench |-> IF has_history THEN manager_history.points_on_bench ELSE 0,
         prev_overall_rank |-> NA,
         overall_rank_change_known |-> FALSE,
         overall_rank_change |-> 0,
         overall_rank_change_pct |-> NoPct]

(***************************************************************************)
(* utils/fpl_api.py: get_league_standings and process_page_data            *)
(***************************************************************************)
PageManagers == {1, 2}
\* the standings entry and the new-entries entry the API lists for manager m
\* manager 2 has no last_rank yet (0), manager 1 was second
StdEntry(m) == [entry |-> m, rank |-> m, last_rank |-> 2 * (2 - m), total |-> 60 - 10 * m,
                event_total |-> 6 + m]
NewEntry(m) == [entry |-> m]

\* answers of the league endpoint. status "reqerr"/"non200": fetch_league_page
\* returns None; "empty": status 200 with an empty JSON object; section: whether
\* the answer holds the section ("standings" or "new_entries") the phase reads
PageFailure(st) == [status |-> st, section |-> FALSE, results |-> <<>>, has_next |-> FALSE]
PageFailures == {PageFailure("reqerr"), PageFailure("non200"), PageFailure("empty")}
PageWithoutSection == [status |-> "ok", section |-> FALSE, results |-> <<>>, has_next |-> FALSE]
PagesOf(entries) ==
    PageFailures \cup {PageWithoutSection}
    \cup [status : {"ok"}, section : {TRUE}, results : SeqsUpTo(entries, MaxEntries),
          has_next : BOOLEAN]
OnePage(results) ==
    [status |-> "ok", section |-> TRUE, results |-> results, has_next |-> FALSE]

StdPages == PagesOf({StdEntry(m) : m \in PageManagers})
NewPages == PagesOf({NewEntry(m) : m \in PageManagers})
\* the API serves at most MaxPages pages per phase
Served(pages, pg) == {r \in pages : pg = MaxPages => ~r.has_next}

StandingsAnswers(sc, pg) ==
    IF sc = "standings" THEN Served(StdPages, pg)
    ELSE IF sc = "new_entries"
         THEN {PageFailure("non200"), OnePage(<<StdEntry(1)>>), OnePage(<<>>)}
    ELSE {OnePage(<<StdEntry(1), StdEntry(2)>>)}
NewEntriesAnswers(sc, pg) ==
    IF sc = "new_entries" THEN Served(NewPages, pg)
    ELSE IF sc = "standings"
         THEN {PageFailure("reqerr"), OnePage(<<NewEntry(1)>>), OnePage(<<>>)}
    ELSE {OnePage(<<NewEntry(2)>>)}

\* `if not page_data: break`
page_data_missing(answer) == answer.status # "ok"

\* `while has_next: ... if not page_data: break`: whether the phase goes on after
\* this page
PhaseRetriesFailedPage(fetched, next) == ~fetched \/ next
\* a loop that only a failed fetch ends
PhaseIgnoresHasNext(fetched, next) == fetched
phase_continues(fetched, next) == fetched /\ next

LTasks   == DOMAIN pState
LRunning == {k \in LTasks : pState[k] = "running"}
NoBasic  == [summary_overall_points |-> 0, summary_event_points |-> 0]
EmptyDict(default) == [m \in PageManagers |-> default]

LeagueFrame == <<apiVars, notLeague, scenario, limit, lGw>>

\* ThreadPoolExecutor(...) with one task submitted per entry of the page
StartPool(kind, entries) ==
    /\ pKind' = kind
    /\ pageEntries' = entries
    /\ pState' = [k \in 1..Len(entries) |-> "pending"]
    /\ pOutcome' = [k \in 1..Len(entries) |-> NoRecord]
    /\ pQueue' = [k \in 1..Len(entries) |-> k]
    /\ detailLog' = detailLog \o
          [k \in 1..Len(entries) |->
              [kind |-> kind, entry |-> entries[k].entry,
               held |-> Len(standings_players) + Len(new_entries_players) + k - 1]]
PoolUntouched == UNCHANGED <<pKind, pageEntries, pState, pOutcome, pQueue, detailLog>>

\* the end of one pagination phase: on to the new-entries phase, or to the assembly
EndPhase(phase) ==
    IF phase = 1
    THEN lPc' = "new_entries" /\ page' = 1 /\ has_next' = TRUE
    ELSE lPc' = "assemble" /\ UNCHANGED <<page, has_next>>

\* one iteration of a pagination loop up to the submission of the page's tasks
FetchPage(phase, answers, loop, kind) ==
    /\ lPc = loop
    /\ \E answer \in answers :
         LET fetched == ~page_data_missing(answer)
             results == IF answer.section THEN answer.results ELSE <<>>
             next    == answer.section /\ answer.has_next
         IN  /\ reqLog' = Append(reqLog,
                    [phase |-> phase, page |-> page, answer |-> answer,
                     held |-> standings_players \o new_entries_players])
             /\ IF ~fetched
                THEN /\ IF phase_continues(fetched, next)
                        THEN UNCHANGED <<lPc, page, has_next>>
                        ELSE EndPhase(phase)
                     /\ PoolUntouched
                ELSE IF results = <<>>
                THEN /\ IF phase_continues(fetched, next)
                        THEN lPc' = loop /\ page' = page + 1 /\ has_next' = next
                        ELSE EndPhase(phase)
                     /\ PoolUntouched
                ELSE /\ lPc' = "pool"
                     /\ has_next' = next
                     /\ UNCHANGED page
                     /\ StartPool(kind, results)
    /\ page_manager_data' = EmptyDict(NoInfo)
    /\ manager_data_dict' = EmptyDict(NoBasic)
    /\ history_data_dict' = EmptyDict(NoInfo)
    /\ UNCHANGED <<standings_players, new_entries_players, callLog, lOut, LeagueFrame>>

FetchStandingsPage ==
    FetchPage(1, StandingsAnswers(scenario, page), "standings", "history")
FetchNewEntriesPage ==
    FetchPage(2, NewEntriesAnswers(scenario, page), "new_entries", "basic")

LStartTask ==
    /\ lPc = "pool"
    /\ pQueue # <<>>
    /\ PoolHasIdleWorker(LRunning, LeagueWorkers)
    /\ pState' = [pState EXCEPT ![Head(pQueue)] = "running"]
    /\ pQueue' = Tail(pQueue)
    /\ UNCHANGED <<lPc, page, has_next, standings_players, new_entries_players, pageEntries,
                   pKind, pOutcome, page_manager_data, manager_data_dict, history_data_dict,
                   reqLog, detailLog, callLog, lOut, LeagueFrame>>

LFinishTask(k) ==
    /\ lPc = "pool"
    /\ pState[k] = "running"
    /\ pState' = [pState EXCEPT ![k] = "finished"]
    /\ pOutcome' = [pOutcome EXCEPT ![k] =
          IF pKind = "history" THEN page_task(pageEntries[k].entry, lGw)
          ELSE IF pKind = "basic"
               THEN [tag |-> "basic", data |-> get_manager_basic_data(pageEntries[k].entry)]
          ELSE fpl_api_get_manager_history(pageEntries[k].entry, lGw)]
    /\ callLog' =
          IF pKind = "basic" \/ lGw = 0 THEN callLog
          ELSE callLog \cup
                 {[entry    |-> pageEntries[k].entry,
                   requests |-> history_requests(pageEntries[k].entry, lGw),
                   result   |-> fpl_api_get_manager_history(pageEntries[k].entry, lGw)]}
    /\ UNCHANGED <<lPc, page, has_next, standings_players, new_entries_players, pageEntries,
                   pKind, pQueue, page_manager_data, manager_data_dict, history_data_dict,
                   reqLog, detailLog, lOut, LeagueFrame>>

\* one iteration of an as_completed loop; after the last one the `with` block ends
LCollect(k) ==
    /\ lPc = "pool"
    /\ pState[k] = "finished"
    /\ pState' = [pState EXCEPT ![k] = "yielded"]
    /\ LET entry_id == pageEntries[k].entry
           outcome  == pOutcome[k]
       IN  /\ page_manager_data' =
                 IF pKind # "history" THEN page_manager_data
                 ELSE IF outcome.tag = "raise"
                      THEN [page_manager_data EXCEPT ![entry_id] = NoInfo]
                 ELSE IF manager_info_of(outcome) # NoInfo
                      THEN [page_manager_data EXCEPT ![entry_id] = outcome]
                 ELSE page_manager_data
           /\ manager_data_dict' =
                 IF pKind = "basic"
                 THEN [manager_data_dict EXCEPT ![entry_id] = outcome.data]
                 ELSE manager_data_dict
           /\ history_data_dict' =
                 IF pKind = "history2"
                 THEN [history_data_dict EXCEPT ![entry_id] =
                          IF outcome.tag = "dict" THEN outcome ELSE NoInfo]
                 ELSE history_data_dict
    /\ lPc' = IF \E j \in LTasks \ {k} : pState[j] # "yielded" THEN "pool"
              ELSE IF pKind = "history" THEN "rows"
              ELSE IF pKind = "basic" /\ lGw # 0 THEN "history_pool"
              ELSE "new_rows"
    /\ UNCHANGED <<page, has_next, standings_players, new_entries_players, pageEntries,
                   pKind, pOutcome, pQueue, reqLog, detailLog, callLog, lOut, LeagueFrame>>

\* lines 494-510: the second pool of a new-entries page
SubmitHistoryPool ==
    /\ lPc = "history_pool"
    /\ lPc' = "pool"
    /\ StartPool("history2", pageEntries)
    /\ UNCHANGED <<page, has_next, standings_players, new_entries_players,
                   page_manager_data, manager_data_dict, history_data_dict,
                   reqLog, callLog, lOut, LeagueFrame>>

\* the rows process_page_data returns for the page
PageRowsFetchedOnly(results, data) ==
    LET Known(e) == data[e.entry] # NoInfo
        kept == SelectSeq(results, Known)
    IN  [k \in 1..Len(kept) |-> player_data(kept[k], data[kept[k].entry])]
page_rows(results, data) ==
    [k \in 1..Len(results) |-> player_data(results[k], data[results[k].entry])]

\* a loop body that ends without `page += 1`
AfterPageRepeats(phase, loop) ==
    /\ UNCHANGED page
    /\ IF phase_continues(TRUE, has_next) THEN lPc' = loop /\ UNCHANGED has_next
       ELSE IF phase = 1 THEN lPc' = "new_entries" /\ has_next' = TRUE
       ELSE lPc' = "assemble" /\ UNCHANGED has_next
\* the rest of the loop body: the page's rows are appended, page += 1
AfterPage(phase, loop) ==
    /\ page' = IF phase_continues(TRUE, has_next) \/ phase = 2 THEN page + 1 ELSE 1
    /\ IF phase_continues(TRUE, has_next) THEN lPc' = loop /\ UNCHANGED has_next
       ELSE IF phase = 1 THEN lPc' = "new_entries" /\ has_next' = TRUE
       ELSE lPc' = "assemble" /\ UNCHANGED has_next

PageRows ==
    /\ lPc = "rows"
    /\ standings_players' = standings_players \o page_rows(pageEntries, page_manager_data)
    /\ AfterPage(1, "standings")
    /\ UNCHANGED <<new_entries_players, pageEntries, pKind, pState, pOutcome, pQueue,
                   page_manager_data, manager_data_dict, history_data_dict, reqLog,
                   detailLog, callLog, lOut, LeagueFrame>>

NewEntryRows ==
    /\ lPc = "new_rows"
    /\ new_entries_players' = new_entries_players \o
          [k \in 1..Len(pageEntries) |->
              new_entry_data(pageEntries[k].entry, manager_data_dict[pageEntries[k].entry],
                             history_data_dict[pageEntries[k].entry], lGw)]
    /\ AfterPage(2, "new_entries")
    /\ UNCHANGED <<standings_players, pageEntries, pKind, pState, pOutcome, pQueue,
                   page_manager_data, manager_data_dict, history_data_dict, reqLog,
                   detailLog, callLog, lOut, LeagueFrame>>

\* all_players[-limit:] in place of all_players[:limit]
LimitKeepsLast(all_players, lim) ==
    IF lim # 0 /\ Len(all_players) > lim
    THEN SubSeq(all_players, Len(all_players) - lim + 1, Len(all_players))
    ELSE all_players
\* all_players[:limit] when a limit is given and exceeded
apply_limit(all_players, lim) ==
    IF lim # 0 /\ Len(all_players) > lim THEN SubSeq(all_players, 1, lim) ELSE all_players

\* df.sort_values("total", ascending=False): every order of the rows with
\* non-increasing totals (the sort is not stable); KeepsCollectedOrder is the
\* table left as collected
KeepsCollectedOrder(sorted, r) == {<<r>> \o sorted}
InsertByTotal(sorted, r) ==
    {SubSeq(sorted, 1, k) \o <<r>> \o SubSeq(sorted, k + 1, Len(sorted)) :
        k \in {j \in 0..Len(sorted) :
                  /\ (j = 0 \/ sorted[j].total >= r.total)
                  /\ (j = Len(sorted) \/ r.total >= sorted[j + 1].total)}}
RECURSIVE sort_values_total(_)
sort_values_total(rows) ==
    IF rows = <<>> THEN {<<>>}
    ELSE UNION {InsertByTotal(sorted, Head(rows)) : sorted \in sort_values_total(Tail(rows))}

\* lines 572-637: the table the call returns
league_tables(all_players, lim) ==
    LET rows == apply_limit(all_players, lim)
    IN  IF all_players = <<>> THEN {<<>>}
        ELSE IF \A k \in 1..Len(rows) : rows[k].rank = NA
        THEN {[k \in 1..Len(sorted) |-> [sorted[k] EXCEPT !.rank = k]] :
                 sorted \in sort_values_total(rows)}
        ELSE {rows}

AssembleLeague ==
    /\ lPc = "assemble"
    /\ lOut' \in league_tables(standings_players \o new_entries_players, limit)
    /\ lPc' = "done"
    /\ UNCHANGED <<page, has_next, standings_players, new_entries_players, pageEntries,
                   pKind, pState, pOutcome, pQueue, page_manager_data, manager_data_dict,
                   history_data_dict, reqLog, detailLog, callLog, LeagueFrame>>

(***************************************************************************)
(* The runs of get_league_standings that are explored                      *)
(***************************************************************************)
\* overall_rank may be null (NA) or 0 in a gameweek's record
GwRecord == [event : {GW - 1, GW}, overall_rank : {100, 200, 0, NA},
             event_transfers_cost : {4}]
HistoryFailure(st) == [status |-> st, current |-> <<>>]
HistoryFailures == {HistoryFailure("reqerr"), HistoryFailure("non200"), HistoryFailure("badjson")}
HistoryResponses == HistoryFailures \cup [status : {"ok"}, current : SeqsUpTo(GwRecord, 2)]
BaseHistory ==
    [status |-> "ok",
     current |-> <<[event |-> GW, overall_rank |-> 100, event_transfers_cost |-> 4]>>]

LeaguePicksOk(cap, vice) ==
    [status |-> "ok", active_chip |-> "bboost", points_on_bench |-> 6,
     picks |-> <<[element |-> cap, position |-> 1, is_captain |-> TRUE,
                  is_vice_captain |-> FALSE],
                 [element |-> vice, position |-> 2, is_captain |-> FALSE,
                  is_vice_captain |-> vice # cap]>>]
LeaguePicksFailure(st) ==
    [status |-> st, active_chip |-> None, points_on_bench |-> 0, picks |-> <<>>]
LeaguePicksResponses ==
    {LeaguePicksOk(1, 2), LeaguePicksOk(2, 2), LeaguePicksFailure("reqerr"),
     LeaguePicksFailure("non200"), LeaguePicksFailure("badjson")}

EntryFailure(st) ==
    [status |-> st, summary_overall_rank |-> NA, summary_overall_points |-> 0,
     summary_event_points |-> 0]
EntryOk(rank, total) ==
    [status |-> "ok", summary_overall_rank |-> rank, summary_overall_points |-> total,
     summary_event_points |-> 8]
EntryResponses ==
    {EntryFailure("reqerr"), EntryFailure("non200"), EntryFailure("badjson"),
     EntryOk(300, 40), EntryOk(NA, 40), EntryOk(0, 40), EntryOk(300, 50)}
BootstrapResponses ==
    {[status |-> "ok", ids |-> Players], [status |-> "ok", ids |-> {1}],
     [status |-> "reqerr", ids |-> {}]}

LeagueApiUnused == transfersResp = BaseTransfers /\ summaryResp = BaseSummary

\* every per-manager endpoint answers; what varies is the league endpoint
InitApiPagination ==
    /\ historyResp = [m \in Managers |-> BaseHistory]
    /\ picksResp = [m \in Managers |-> LeaguePicksOk(1, 2)]
    /\ entryResp = [m \in Managers |-> EntryOk(300, 30 + 10 * m)]
    /\ bootstrapResp = [status |-> "ok", ids |-> Players]
    /\ jsonErrorIsRequestException = TRUE
    /\ equalKeysKeepOrder = TRUE

\* the league lists managers 1 and 2 in the standings and manager 2 among the
\* new entries; what varies is what the per-manager endpoints answer
InitApiDetails ==
    /\ bootstrapResp \in BootstrapResponses
    /\ jsonErrorIsRequestException \in BOOLEAN
    /\ equalKeysKeepOrder = TRUE
    /\ \/ /\ lGw = GW
          /\ \E h1 \in HistoryResponses, h2 \in HistoryFailures \cup {BaseHistory} :
                historyResp = [m \in Managers |-> IF m = 1 THEN h1 ELSE h2]
          /\ \E p \in LeaguePicksResponses : picksResp = [m \in Managers |-> p]
          /\ \E e \in {EntryOk(300, 40), EntryFailure("non200")} :
                entryResp = [m \in Managers |-> e]
       \/ /\ lGw = 0
          /\ historyResp = [m \in Managers |-> BaseHistory]
          /\ picksResp = [m \in Managers |-> LeaguePicksOk(1, 2)]
          /\ entryResp \in [Managers -> EntryResponses]

InitLeague ==
    /\ OnlyLeague
    /\ LeagueApiUnused
    /\ \/ /\ scenario \in {"standings", "new_entries"}
          /\ InitApiPagination
          /\ lGw \in {0, GW}
          /\ limit \in 0..MaxLimit
       \/ /\ scenario = "details"
          /\ InitApiDetails
          /\ limit = 0
    /\ lPc = "standings"
    /\ page = 1
    /\ has_next = TRUE
    /\ standings_players = <<>>
    /\ new_entries_players = <<>>
    /\ pageEntries = <<>> /\ pKind = "none" /\ pState = <<>> /\ pOutcome = <<>>
    /\ pQueue = <<>>
    /\ page_manager_data = EmptyDict(NoInfo)
    /\ manager_data_dict = EmptyDict(NoBasic)
    /\ history_data_dict = EmptyDict(NoInfo)
    /\ reqLog = <<>> /\ detailLog = <<>> /\ callLog = {} /\ lOut = <<>>

NextLeague ==
    \/ FetchStandingsPage
    \/ LStartTask
    \/ \E k \in LTasks : LFinishTask(k)
    \/ \E k \in LTasks : LCollect(k)
    \/ PageRows
    \/ FetchNewEntriesPage
    \/ SubmitHistoryPool
    \/ NewEntryRows
    \/ AssembleLeague

SpecLeague == InitLeague /\ [][NextLeague]_vars

(***************************************************************************)
(* Properties of get_league_standings and process_page_data                *)
(***************************************************************************)
DetailFailed(outcome) == outcome.tag \in {"None", "raise"}
DefaultDetails(r) ==
    /\ r.overall_rank = NA /\ r.chip_used = None /\ r.captain_name = NA
    /\ r.vice_captain_name = NA /\ r.transfer_penalty = 0 /\ r.points_on_bench = 0
FromStandings(r, e) ==
    /\ r.manager_id = e.entry /\ r.rank = e.rank /\ r.total = e.total
    /\ r.gw_points = e.event_total

\* C4: process_page_data returns exactly one row for every entry of the page's
\* results, in the page's order, whatever the entry's detail fetch did; the row's
\* rank, total and gw_points come from the standings entry, and when the detail
\* fetch returned nothing or raised, the row carries overall_rank, chip_used,
\* captain_name, vice_captain_name = null and transfer_penalty, points_on_bench = 0.
C4_OneRowPerEntry ==
    [][lPc = "rows" =>
         LET returned == SubSeq(standings_players', Len(standings_players) + 1,
                                Len(standings_players'))
         IN  /\ Len(returned) = Len(pageEntries)
             /\ \A k \in 1..Len(pageEntries) :
                   /\ FromStandings(returned[k], pageEntries[k])
                   /\ DetailFailed(pOutcome[k]) => DefaultDetails(returned[k])]_vars
\* a page of two entries has been processed: the fetch of the first raised, the
\* fetch of the second gave its history, and both have their row
C4_Witness ==
    /\ lPc = "new_entries" /\ pKind = "history" /\ Len(pageEntries) = 2
    /\ pOutcome[1].tag = "raise" /\ pOutcome[2].tag = "dict"
    /\ Len(standings_players) = 2
    /\ DefaultDetails(standings_players[1])
    /\ standings_players[2].overall_rank = 100

\* C5: the table get_league_standings returns holds at most one row per manager
\* ID, whatever the pages list.
C5_OneRowPerManager ==
    lPc = "done" =>
        \A i, j \in 1..Len(lOut) : lOut[i].manager_id = lOut[j].manager_id => i = j

FetchFailed(request) == request.answer.status \in {"reqerr", "non200"}
\* row r is in the returned table (ranks are assigned afresh in a league without ranks)
Returned(r) == \E k \in 1..Len(lOut) : [lOut[k] EXCEPT !.rank = r.rank] = r

\* C6: a league page whose fetch failed is never requested again and no further
\* page of its phase is requested; the rows held when it failed are kept; and a
\* failed standings phase is followed by the first request of the new-entries phase.
C6_NoRetry ==
    \A i \in 1..Len(reqLog) :
        FetchFailed(reqLog[i]) =>
            /\ \A j \in (i + 1)..Len(reqLog) : reqLog[j].phase # reqLog[i].phase
            /\ IF reqLog[i].phase = 1
               THEN /\ standings_players = reqLog[i].held
                    /\ IF i = Len(reqLog)
                       THEN lPc = "new_entries" /\ page = 1 /\ has_next
                       ELSE reqLog[i + 1].phase = 2 /\ reqLog[i + 1].page = 1
               ELSE /\ standings_players \o new_entries_players = reqLog[i].held
                    /\ lPc \in {"assemble", "done"}
            /\ (lPc = "done" /\ limit = 0) =>
                  \A k \in 1..Len(reqLog[i].held) : Returned(reqLog[i].held[k])
\* the second standings page failed after a first page with rows: the rows are in
\* the returned table and the new-entries phase made its request
C6_Witness ==
    /\ lPc = "done" /\ limit = 0
    /\ Len(reqLog) >= 3
    /\ reqLog[2].phase = 1 /\ FetchFailed(reqLog[2]) /\ reqLog[2].held # <<>>
    /\ reqLog[3].phase = 2
    /\ Len(lOut) >= Len(reqLog[2].held)

\* C10: with a limit L, no league page is requested and no manager's details are
\* fetched once L managers have been retrieved.
C10_LimitStopsFetching ==
    limit # 0 =>
        /\ \A i \in 1..Len(reqLog) : Len(reqLog[i].held) < limit
        /\ \A i \in 1..Len(detailLog) :
              detailLog[i].kind # "history2" => detailLog[i].held < limit

\* the rows the step of process_page_data's row loop appends
ReturnedRows ==
    SubSeq(standings_players', Len(standings_players) + 1, Len(standings_players'))

\* C15: in the row process_page_data builds for a standings entry, rank_change is
\* last_rank - rank when last_rank is not 0 and null when it is 0; pct_rank_change
\* is 100 * (last_rank - rank) / last_rank when last_rank > 0 and null otherwise,
\* so no division by zero occurs and an entry with last_rank = 0 has both null.
C15_RankChange ==
    [][lPc = "rows" =>
         /\ Len(ReturnedRows) = Len(pageEntries)
         /\ \A k \in 1..Len(pageEntries) :
               LET e == pageEntries[k]
                   r == ReturnedRows[k]
               IN  /\ r.rank = e.rank /\ r.last_rank = e.last_rank
                   /\ e.last_rank # 0 =>
                         r.rank_change_known /\ r.rank_change = e.last_rank - e.rank
                   /\ e.last_rank = 0 =>
                         ~r.rank_change_known /\ r.pct_rank_change = NoPct
                   /\ e.last_rank > 0 =>
                         r.pct_rank_change =
                             [num |-> e.last_rank - e.rank, den |-> e.last_rank]
                   /\ r.pct_rank_change # NoPct => r.pct_rank_change.den > 0]_vars
\* a page with an entry of last_rank 2 and one of last_rank 0 has been processed
C15_Witness ==
    /\ lPc = "new_entries"
    /\ Len(standings_players) = 2
    /\ standings_players[1].last_rank = 2 /\ standings_players[1].rank_change = 1
    /\ standings_players[1].pct_rank_change = [num |-> 1, den |-> 2]
    /\ standings_players[2].last_rank = 0 /\ ~standings_players[2].rank_change_known
    /\ standings_players[2].pct_rank_change = NoPct

\* the overall rank the history endpoint reports for manager e in gameweek gw,
\* NA when the run has no gameweek, the request fails or no record has the event
HistRank(e, gw) ==
    LET h   == historyResp[e]
        idx == {k \in 1..Len(h.current) : h.current[k].event = gw}
    IN  IF lGw = 0 \/ h.status # "ok" \/ idx = {} THEN NA
        ELSE h.current[CHOOSE k \in idx : \A j \in idx : j <= k].overall_rank

\* C16: a row has overall_rank_change only when the manager's history holds an
\* overall rank for the current gameweek and for the one before, and it is then
\* prev_overall_rank - overall_rank; it has overall_rank_change_pct only when in
\* addition prev_overall_rank > 0; a standings row whose history holds both ranks
\* has the change, and the percentage when prev_overall_rank > 0.
C16_OverallRankChange ==
    LET rows == standings_players \o new_entries_players
    IN  \A i \in 1..Len(rows) :
           LET r    == rows[i]
               cur  == HistRank(r.manager_id, lGw)
               prev == HistRank(r.manager_id, lGw - 1)
           IN  /\ r.overall_rank_change_known =>
                     /\ cur # NA /\ prev # NA
                     /\ r.overall_rank_change = prev - cur
                     /\ r.overall_rank = cur /\ r.prev_overall_rank = prev
               /\ r.overall_rank_change_pct # NoPct =>
                     /\ r.overall_rank_change_known /\ prev > 0
                     /\ r.overall_rank_change_pct = [num |-> prev - cur, den |-> prev]
               /\ (cur = NA \/ prev = NA) =>
                     ~r.overall_rank_change_known /\ r.overall_rank_change_pct = NoPct
               /\ (i <= Len(standings_players) /\ cur # NA /\ prev # NA) =>
                     /\ r.overall_rank_change_known
                     /\ prev > 0 => r.overall_rank_change_pct # NoPct
\* manager 1 rose from overall rank 200 to 100; manager 2's history lacks the
\* previous gameweek
C16_Witness ==
    /\ Len(standings_players) = 2
    /\ standings_players[1].overall_rank_change_known
    /\ standings_players[1].overall_rank_change = 100
    /\ standings_players[1].overall_rank_change_pct = [num |-> 100, den |-> 200]
    /\ standings_players[2].overall_rank = 100
    /\ ~standings_players[2].overall_rank_change_known
\* the previous overall rank is 0: the change is present, the percentage is not
C16_ZeroPrevReached ==
    /\ Len(standings_players) = 2
    /\ standings_players[1].overall_rank_change_known
    /\ standings_players[1].prev_overall_rank = 0
    /\ standings_players[1].overall_rank_change_pct = NoPct

\* the entries listed by the successfully fetched pages of a request log, in the
\* order of the log
RECURSIVE ListedEntries(_)
ListedEntries(log) ==
    IF log = <<>> THEN <<>>
    ELSE LET r == log[Len(log)]
             listed == IF r.answer.status = "ok" /\ r.answer.section
                       THEN [k \in 1..Len(r.answer.results) |-> r.answer.results[k].entry]
                       ELSE <<>>
         IN  ListedEntries(SubSeq(log, 1, Len(log) - 1)) \o listed
ManagerIdsOf(rows) == [k \in 1..Len(rows) |-> rows[k].manager_id]

\* C17: the i-th request of a phase asks for page i; page k+1 is requested only
\* directly after page k of the same phase was fetched with has_next true; the
\* standings requests come before the new-entries requests; and the combined list
\* holds the rows of the fetched pages in the order of the requests, the standings
\* pages first.
C17_PagesInOrder ==
    /\ \A i \in 1..Len(reqLog) :
          LET r == reqLog[i]
          IN  /\ r.page = Cardinality({j \in 1..i : reqLog[j].phase = r.phase})
              /\ r.page > 1 =>
                    /\ reqLog[i - 1].phase = r.phase
                    /\ reqLog[i - 1].page = r.page - 1
                    /\ reqLog[i - 1].answer.status = "ok"
                    /\ reqLog[i - 1].answer.section /\ reqLog[i - 1].answer.has_next
              /\ (i > 1 /\ r.phase = 1) => reqLog[i - 1].phase = 1
              /\ ManagerIdsOf(r.held) = ListedEntries(SubSeq(reqLog, 1, i - 1))
    /\ lPc \in {"assemble", "done"} =>
          /\ reqLog # <<>> /\ reqLog[Len(reqLog)].phase = 2
          /\ ManagerIdsOf(standings_players \o new_entries_players) = ListedEntries(reqLog)
\* two standings pages with rows, then a new-entries page with a row
C17_Witness ==
    /\ lPc = "done"
    /\ Len(reqLog) = 3
    /\ reqLog[1].phase = 1 /\ reqLog[2].phase = 1 /\ reqLog[2].page = 2
    /\ reqLog[3].phase = 2 /\ reqLog[3].page = 1
    /\ ManagerIdsOf(standings_players \o new_entries_players) = <<2, 1, 1, 2, 1>>

\* the call runs on: each loop iteration, each task of a pool (its requests have
\* timeouts) and the assembly are eventually carried out
SpecLeagueFair == InitLeague /\ [][NextLeague]_vars /\ WF_vars(NextLeague)

\* a page that ends its phase: the fetch failed, the answer lacks the section, or
\* has_next is false
EndsPhase(r) == r.answer.status # "ok" \/ ~r.answer.section \/ ~r.answer.has_next
StopsAtFirstEndingPage ==
    /\ \A i \in 1..Len(reqLog) :
          /\ EndsPhase(reqLog[i]) =>
                \A j \in (i + 1)..Len(reqLog) : reqLog[j].phase # reqLog[i].phase
          /\ reqLog[i].page = Cardinality({j \in 1..i : reqLog[j].phase = reqLog[i].phase})
    /\ lPc \in {"assemble", "done"} =>
          \A ph \in {1, 2} :
              \E i \in 1..Len(reqLog) : reqLog[i].phase = ph /\ EndsPhase(reqLog[i])

\* C18: with an API that in each phase eventually answers a page that fails, lacks
\* the section or has has_next false, get_league_standings returns; each loop
\* iteration makes one page request and a phase makes no request after the first
\* such page.
C18_Terminates == []StopsAtFirstEndingPage /\ <>(lPc = "done")
\* the call has returned after MaxPages standings pages, the last one with
\* has_next false, and one new-entries page
C18_Witness ==
    /\ lPc = "done"
    /\ Len(reqLog) = MaxPages + 1
    /\ reqLog[MaxPages].phase = 1 /\ reqLog[MaxPages].page = MaxPages
    /\ reqLog[MaxPages].answer.status = "ok" /\ reqLog[MaxPages].answer.section
    /\ ~reqLog[MaxPages].answer.has_next
    /\ reqLog[MaxPages + 1].phase = 2 /\ EndsPhase(reqLog[MaxPages + 1])

\* the collected rows, and the rows of a table without their order and rank
Collected == standings_players \o new_entries_players
FirstRows(n) == IF Len(Collected) > n THEN SubSeq(Collected, 1, n) ELSE Collected
UnrankedBag(rows) ==
    LET bare == [k \in 1..Len(rows) |-> [rows[k] EXCEPT !.rank = NA]]
    IN  [x \in {bare[k] : k \in 1..Len(bare)} |->
            Cardinality({k \in 1..Len(bare) : bare[k] = x})]

\* C19: with a limit L > 0 the returned table has at most L rows and they are the
\* first L rows of the collected sequence (standings rows, then new-entries
\* rows), in that order whenever one of them has a rank; with no limit the table
\* holds every collected row.
C19_LimitKeepsFirstRows ==
    lPc = "done" =>
        LET expected == IF limit > 0 THEN FirstRows(limit) ELSE Collected
        IN  /\ limit > 0 => Len(lOut) <= limit
            /\ Len(lOut) = Len(expected)
            /\ UnrankedBag(lOut) = UnrankedBag(expected)
            /\ (\E k \in 1..Len(expected) : expected[k].rank # NA) => lOut = expected
\* five rows were collected and the limit is 2: the table is the first two rows,
\* which differ from the last two
C19_Witness ==
    /\ lPc = "done" /\ limit = 2
    /\ Len(Collected) = 5
    /\ lOut = SubSeq(Collected, 1, 2)
    /\ lOut[1].manager_id = 2 /\ lOut[2].manager_id = 2
    /\ Collected[4].manager_id = 1

\* the rows of the table before the ranks are looked at
TableRows == IF limit > 0 THEN FirstRows(limit) ELSE Collected
Unranked(rows) == \A k \in 1..Len(rows) : rows[k].rank = NA

\* C20: when no row of the table has a rank, the returned rows are numbered
\* 1..n in their order, without gap or duplicate, and a row with a higher total
\* has a smaller rank than a row with a lower total; when some row has a rank, the
\* table is returned as collected: no rank is changed and the new-entry rows keep
\* a null rank.
C20_RanksAssigned ==
    (lPc = "done" /\ lOut # <<>>) =>
        IF Unranked(TableRows)
        THEN /\ \A k \in 1..Len(lOut) : lOut[k].rank = k
             /\ {lOut[k].rank : k \in 1..Len(lOut)} = 1..Len(TableRows)
             /\ \A i, j \in 1..Len(lOut) :
                   lOut[i].total > lOut[j].total => lOut[i].rank < lOut[j].rank
             /\ UnrankedBag(lOut) = UnrankedBag(TableRows)
        ELSE /\ lOut = TableRows
             /\ \A k \in 1..Len(lOut) : k > Len(standings_players) => lOut[k].rank = NA
\* three new entries and no standings row: manager 2, with the higher total, was
\* collected last and is ranked first
C20_Witness ==
    /\ lPc = "done" /\ limit = 0
    /\ standings_players = <<>>
    /\ Len(lOut) = 3
    /\ ManagerIdsOf(Collected) = <<1, 1, 2>>
    /\ lOut[1].manager_id = 2 /\ lOut[1].rank = 1 /\ lOut[1].total > lOut[2].total
    /\ lOut[2].rank = 2 /\ lOut[3].rank = 3 /\ lOut[2].total = lOut[3].total
\* a standings row and a new entry: the new entry's rank stays null
C20_MixedReached ==
    /\ lPc = "done"
    /\ Len(lOut) = 2
    /\ lOut[1].rank = 1 /\ lOut[2].rank = NA

\* the last record of manager e's history with the event gw, NoGw when the
\* history has none
HistRecord(e, gw) ==
    LET h   == historyResp[e]
        idx == {k \in 1..Len(h.current) : h.current[k].event = gw}
    IN  IF idx = {} THEN NoGw ELSE h.current[CHOOSE k \in idx : \A j \in idx : j <= k]
Asked(c, endpoint) == \E i \in 1..Len(c.requests) : c.requests[i] = endpoint

\* C21: a call of fpl_api.get_manager_history asks for the history first and for
\* the picks only after a history answer that holds the current gameweek; when the
\* picks request then fails (error or non-200), the call still returns the current
\* and previous gameweek records and the transfer cost, with chip_used, captain and
\* vice captain null and points_on_bench 0; when the history request fails it
\* returns None and asks for nothing else.
C21_PicksAfterHistory ==
    \A c \in callLog :
        LET h == historyResp[c.entry]
            p == picksResp[c.entry]
        IN  /\ c.requests[1] = "history"
            /\ Asked(c, "picks") =>
                  /\ h.status = "ok" /\ HistRecord(c.entry, lGw) # NoGw
                  /\ c.requests[2] = "picks"
            /\ (Asked(c, "picks") /\ p.status \in {"reqerr", "non200"}) =>
                  /\ c.result.tag = "dict"
                  /\ c.result.current = HistRecord(c.entry, lGw)
                  /\ c.result.previous = HistRecord(c.entry, lGw - 1)
                  /\ c.result.transfer_cost = HistRecord(c.entry, lGw).event_transfers_cost
                  /\ c.result.chip_used = None
                  /\ c.result.captain_id = 0 /\ c.result.vice_captain_id = 0
                  /\ c.result.captain_name = NA /\ c.result.vice_captain_name = NA
                  /\ c.result.points_on_bench = 0
            /\ h.status \in {"reqerr", "non200"} =>
                  c.requests = <<"history">> /\ c.result.tag = "None"
\* one call whose picks request failed after a history with both gameweeks, one
\* call whose history request failed
C21_Witness ==
    /\ \E c \in callLog :
          /\ Asked(c, "picks") /\ picksResp[c.entry].status = "non200"
          /\ c.result.current # NoGw /\ c.result.previous # NoGw
          /\ c.result.transfer_cost = 4
    /\ \E c \in callLog : historyResp[c.entry].status = "reqerr" /\ c.result.tag = "None"
\* a history answer without the current gameweek: no picks request
C21_NoCurrentReached ==
    \E c \in callLog :
        /\ historyResp[c.entry].status = "ok" /\ historyResp[c.entry].current # <<>>
        /\ c.requests = <<"history">> /\ c.result.tag = "dict"

(***************************************************************************)
(* The pools of the five fan-out stages                                    *)
(***************************************************************************)
InitPools == InitAdj \/ InitMulti \/ InitTop \/ InitLeague
NextPools == NextAdj \/ NextMulti \/ NextTop \/ NextLeague
SpecPools == InitPools /\ [][NextPools]_vars

\* C7: in every fan-out stage the number of per-manager tasks running at the same
\* time never exceeds the stage's max_workers, however many tasks were submitted.
C7_TasksWithinPool ==
    /\ Cardinality(Running) <= MaxWorkers
    /\ Cardinality(MRunning) <= MaxWorkers
    /\ Cardinality(TRunning) <= MaxWorkers
    /\ Cardinality(LRunning) <= LeagueWorkers
\* every worker of a pool is busy while a submitted task still waits
C7_Witness ==
    /\ Cardinality(Running) = MaxWorkers
    /\ queue # <<>>
    /\ aPc = "collect"

(***************************************************************************)
(* app.py: the Run Analysis handler                                        *)
(***************************************************************************)
GenericFailure   == "An error occurred during processing"
AnalysisComplete == "Analysis complete!"
AppTables ==
    {[k \in 1..n |-> [manager_id |-> k, rank |-> k, total |-> 60 - 10 * k]] : n \in 0..2}
PremierLeague == {1}                  \* SUB_LEAGUES_2246["Premier League"]

\* st.stop(): the script run ends at the call
StopFallsThrough(continuation) == continuation
st_stop(continuation) == "stopped"

InitApp ==
    /\ OnlyApp
    /\ InitApiPagination /\ LeagueApiUnused
    /\ binding \in {"src", "compatible"}
    /\ appPc = "ready"
    /\ league_id \in {0, 1, 2246}
    /\ app_gw \in {0, GW}
    /\ app_top_n \in 1..2
    /\ calculate_all_adjusted \in BOOLEAN
    /\ selected_division \in
          IF league_id = 2246 THEN {"All Divisions", "Premier League"} ELSE {None}
    /\ appDf = <<>>
    /\ analysis_results = None
    /\ adjusted_points_calculated = FALSE
    /\ messages = <<>> /\ progress = "none" /\ raisedIn = 0 /\ displayed = {}

AppInputs == <<binding, league_id, app_gw, app_top_n, calculate_all_adjusted,
               selected_division>>

specific_manager_ids ==
    IF league_id = 2246 /\ selected_division # None /\ selected_division # "All Divisions"
    THEN PremierLeague ELSE {}

\* lines 138-155
ClickRunAnalysis ==
    /\ appPc = "ready"
    /\ IF league_id = 0 \/ app_gw = 0
       THEN /\ messages' = Append(messages, "Please enter both League ID and Current Gameweek.")
            /\ appPc' = st_stop("stage1")
            /\ UNCHANGED progress
       ELSE /\ progress' = "shown"
            /\ appPc' = "stage1"
            /\ UNCHANGED messages
    /\ UNCHANGED <<appDf, analysis_results, adjusted_points_calculated, raisedIn, displayed,
                   AppInputs, apiVars, notApp>>

\* the exception leaves the try block for the except clause
Raise(stage) ==
    /\ raisedIn' = stage
    /\ appPc' = "except"
    /\ UNCHANGED <<appDf, analysis_results, adjusted_points_calculated, messages>>

\* lines 157-175. get_league_standings of src/utils has no parameter
\* specific_manager_ids: the call raises TypeError
Stage1 ==
    /\ appPc = "stage1"
    /\ \/ Raise(1)
       \/ /\ binding = "compatible"
          /\ \E table \in AppTables :
                /\ appDf' = table
                /\ IF table = <<>>
                   THEN /\ messages' = Append(messages, "Could not retrieve league standings")
                        /\ appPc' = st_stop("stage2")
                   ELSE /\ appPc' = "stage2"
                        /\ UNCHANGED messages
          /\ UNCHANGED <<analysis_results, adjusted_points_calculated, raisedIn>>
    /\ UNCHANGED <<progress, displayed, AppInputs, apiVars, notApp>>

\* lines 177-186
Stage2 ==
    /\ appPc = "stage2"
    /\ \/ Raise(2)
       \/ /\ analysis_results' = "results"
          /\ appPc' = "stage3"
          /\ UNCHANGED <<appDf, adjusted_points_calculated, messages, raisedIn>>
    /\ UNCHANGED <<progress, displayed, AppInputs, apiVars, notApp>>

\* lines 188-203
Stage3 ==
    /\ appPc = "stage3"
    /\ IF calculate_all_adjusted
       THEN \/ Raise(3)
            \/ /\ adjusted_points_calculated' = TRUE
               /\ appPc' = "complete"
               /\ UNCHANGED <<appDf, analysis_results, messages, raisedIn>>
       ELSE /\ appPc' = "complete"
            /\ UNCHANGED <<appDf, analysis_results, adjusted_points_calculated, messages,
                           raisedIn>>
    /\ UNCHANGED <<progress, displayed, AppInputs, apiVars, notApp>>

\* lines 205-208
Complete ==
    /\ appPc = "complete"
    /\ messages' = Append(messages, AnalysisComplete)
    /\ progress' = "cleared"
    /\ appPc' = "display"
    /\ UNCHANGED <<appDf, analysis_results, adjusted_points_calculated, raisedIn, displayed,
                   AppInputs, apiVars, notApp>>

\* lines 210-215: except Exception as e
HandleException ==
    /\ appPc = "except"
    /\ messages' = Append(messages, GenericFailure)
    /\ progress' = "cleared"
    /\ appPc' = st_stop("display")
    /\ UNCHANGED <<appDf, analysis_results, adjusted_points_calculated, raisedIn, displayed,
                   AppInputs, apiVars, notApp>>

\* lines 217-225: the fallback filter runs only when no manager ids were selected
filter_by_division(dataframe, division) ==
    IF division = "Premier League"
    THEN LET InDivision(r) == r.manager_id \in PremierLeague
             kept == SelectSeq(dataframe, InDivision)
         IN  [k \in 1..Len(kept) |-> [kept[k] EXCEPT !.rank = k]]
    ELSE dataframe

\* lines 217 onwards: the statistics of the top managers and the standings table
Display ==
    /\ appPc = "display"
    /\ appDf' = IF /\ league_id = 2246 /\ selected_division # None
                   /\ selected_division # "All Divisions" /\ specific_manager_ids = {}
                THEN filter_by_division(appDf, selected_division)
                ELSE appDf
    /\ displayed' = (IF analysis_results # None THEN {"statistics"} ELSE {}) \cup {"standings"}
    /\ appPc' = "rendered"
    /\ UNCHANGED <<analysis_results, adjusted_points_calculated, messages, progress, raisedIn,
                   AppInputs, apiVars, notApp>>

NextApp ==
    \/ ClickRunAnalysis
    \/ Stage1
    \/ Stage2
    \/ Stage3
    \/ Complete
    \/ HandleException
    \/ Display
SpecApp == InitApp /\ [][NextApp]_vars

Shown(message) == \E k \in 1..Len(messages) : messages[k] = message

RowPicksOk(cap, chip) ==
    [status |-> "ok", points |-> 20, event_transfers_cost |-> 4, active_chip |-> chip,
     points_on_bench |-> 6,
     picks |-> <<[element |-> cap, position |-> 1, is_captain |-> TRUE,
                  is_vice_captain |-> FALSE]>>]
RowPicksFailure(st) ==
    [status |-> st, points |-> 0, event_transfers_cost |-> 0, active_chip |-> None,
     points_on_bench |-> 0, picks |-> <<>>]

\* the row of manager m as process_page_data builds it (lines 168-252) from the
\* standings entry and the result of get_manager_history
league_row(m) ==
    LET info == fpl_api_get_manager_history(m, GW)
    IN  player_data(StdEntry(m), IF info.tag = "raise" THEN [info EXCEPT !.tag = "None"]
                                 ELSE info)

InitRowCalc ==
    /\ \E r \in {RowPicksOk(cap, chip) : cap \in Players, chip \in Chips}
                \cup {RowPicksFailure("reqerr"), RowPicksFailure("non200")} :
          picksResp = [m \in Managers |-> r]
    /\ \E h \in {BaseHistory, [status |-> "reqerr", current |-> <<>>]} :
          historyResp = [m \in Managers |-> h]
    /\ bootstrapResp \in {[status |-> "ok", ids |-> Players],
                           [status |-> "ok", ids |-> {1}],
                           [status |-> "reqerr", ids |-> {}]}
    /\ summaryResp \in {BaseSummary,
                         [p \in Players |-> [status |-> "reqerr", history |-> <<>>]]}
    /\ transfersResp = BaseTransfers
    /\ EntryUnused /\ JsonFlagUnused
    /\ cPc = "ready"
    /\ \E m \in Managers : cRow = league_row(m)
    /\ cPoints = NoRecord
    /\ cRecord = NoRecord
    /\ OnlyCalc
SpecRowCalc == InitRowCalc /\ [][NextCalc]_vars

\* the captain get_manager_history identified for the manager of the row
IdentifiedCaptain == fpl_api_get_manager_history(cRow.manager_id, GW).captain_id

\* C29: for a row of get_league_standings whose captain was identified,
\* process_manager reports as captain_points the gameweek points of that
\* captain, get_player_points(captain, gw); captain_points is 0 only when the
\* manager has no known captain.
C29_CaptainPointsOfLeagueRow ==
    (cPc = "done" /\ cRecord.tag = "dict" /\ IdentifiedCaptain # 0) =>
        cRecord.captain_points = get_player_points(IdentifiedCaptain, GW)
\* what the code does: a row of get_league_standings has no captain_id column,
\* and the reported captain_points is 0
C29_AlwaysZero ==
    (cPc = "done" /\ cRecord.tag = "dict") =>
        /\ "captain_id" \notin DOMAIN cRow
        /\ cRecord.captain_points = 0
\* the captain of the row is named and scored, and 0 is reported
C29_NamedCaptainReached ==
    /\ cPc = "done" /\ cRecord.tag = "dict"
    /\ cRow.captain_name = 2 /\ IdentifiedCaptain = 2
    /\ get_player_points(2, GW) = 5
    /\ cRecord.captain_points = 0

\* the handler is one script run, executed statement after statement: a step
\* that can be taken is taken
SpecAppFair == InitApp /\ [][NextApp]_vars /\ WF_vars(NextApp)

\* the run of the program of src/ has passed the input check
RunStarted == binding = "src" /\ appPc = "stage1"

\* C28: with a league id and a gameweek entered, pressing Run Analysis runs
\* Stage 1, then Stage 2, then (in Full League Analysis mode only) Stage 3, and
\* eventually shows "Analysis complete" and not the failure message; Stage 2
\* never starts when Stage 1 returned an empty table.
C28_RunReachesComplete ==
    RunStarted ~> (Shown(AnalysisComplete) /\ ~Shown(GenericFailure))
\* what does hold, for a get_league_standings that accepts the handler's
\* arguments: the stages run in order, Stage 3 in the full mode only, and
\* Stage 2 is not entered with an empty table
C28_StagesInOrder ==
    /\ appPc \in {"stage2", "stage3", "complete"} => appDf # <<>>
    /\ analysis_results # None => appDf # <<>>
    /\ adjusted_points_calculated => (analysis_results # None /\ calculate_all_adjusted)
    /\ Shown(AnalysisComplete) =>
          /\ analysis_results # None
          /\ adjusted_points_calculated = calculate_all_adjusted
          /\ ~Shown(GenericFailure)
\* the program of src/ never leaves Stage 1 by another way than the exception
C28_SrcStopsInStage1 ==
    binding = "src" =>
        /\ appPc \in {"ready", "stage1", "except", "stopped"}
        /\ ~Shown(AnalysisComplete)
        /\ raisedIn \in {0, 1}
\* the run of the program of src/ has ended with the failure message
C28_FailureReached ==
    /\ binding = "src" /\ league_id # 0 /\ app_gw # 0
    /\ appPc = "stopped" /\ raisedIn = 1 /\ Shown(GenericFailure)

====
